---- MODULE Spec2Model ----
(***************************************************************************)
(* MC Store data-access layer: cart / wishlist upsert, order placement,    *)
(* shipping-rate resolver and cash-on-delivery validation, modelled as     *)
(* state machines over the rows of the hosted REST backend.                *)
(*                                                                         *)
(* The source tree holds three rewrites of the data layer.  A deployment   *)
(* runs one of them; `impl` names which one:                               *)
(*   "product" : src/product.js          (check-then-branch, sequential)   *)
(*   "api"     : src/unnamed/part_000    (api/supabase.js `actions`)       *)
(*   "db"      : src/db.js lines 202-475 (upsert, fire-and-forget)         *)
(* Every awaited remote call is one atomic step at the backend; the steps  *)
(* of different calls interleave freely.  A remote call may fail (non-2xx  *)
(* status or network error): it then has no effect and `sb` throws.        *)
(***************************************************************************)
EXTENDS Integers, Sequences, FiniteSets, TLC

VARIABLES impl,      \* which rewrite of the data layer is deployed
          cart,      \* cart table: (uid, product_id) -> quantities of its rows
          wishlist,  \* wishlist table: (uid, product_id) -> number of rows
          calls,     \* cart / wishlist calls: arguments, position, result
          orders,    \* orders table: the rows, in insertion order
          stock,     \* products table: product id -> stock
          stock0,    \* the stock before any order was placed
          ocalls,    \* placeOrder calls: payload, progress of each step, result
          shipReq,   \* the request sent to /api/shipping
          shipRemote,\* what the courier-rate call did
          shipRes,   \* the handler's response
          shipOut,   \* what getRates gave its caller
          cod,       \* the last validateCOD and processCOD calls and their results
          norm,      \* a product row and what the normalizer made of it
          reads,     \* the last read operation and what its caller got
          edit,      \* the last updateCartQty / clearCart call and the cart before it
          page,      \* the checkout page: PaystackPop, injected scripts, payment calls
          ostat,     \* the last updateOrderStatus call
          idb,       \* the browser's session store and the last session call
          auth       \* the sign-in page: provider, users collection, the running call

cartVars == <<cart, wishlist, calls>>

orderVars == <<orders, stock, stock0, ocalls>>

shipVars == <<shipReq, shipRemote, shipRes, shipOut>>

storeVars == <<impl, cart, wishlist, calls, orders, stock, stock0, ocalls>>

\* what the cart, wishlist and order operations never touch
auxVars == <<shipVars, cod, norm, reads, edit, page, ostat, idb, auth>>

\* what the shipping handler and its client never touch
exceptShip == <<storeVars, cod, norm, reads, edit, page, ostat, idb, auth>>

exceptCod == <<storeVars, shipVars, norm, reads, edit, page, ostat, idb, auth>>

exceptNorm == <<storeVars, shipVars, cod, reads, edit, page, ostat, idb, auth>>

exceptReads == <<storeVars, shipVars, cod, norm, edit, page, ostat, idb, auth>>

\* what updateCartQty and clearCart never touch
exceptCartEdit ==
  <<impl, wishlist, calls, orderVars, shipVars, cod, norm, reads, page, ostat, idb, auth>>

exceptPage == <<storeVars, shipVars, cod, norm, reads, edit, ostat, idb, auth>>

\* what updateOrderStatus never touches
exceptOrderStatus ==
  <<impl, cartVars, stock, stock0, ocalls, shipVars, cod, norm, reads, edit, page, idb, auth>>

\* what the session store's operations never touch
exceptSession == <<storeVars, shipVars, cod, norm, reads, edit, page, ostat, auth>>

\* what the sign-in functions never touch
exceptAuth == <<storeVars, shipVars, cod, norm, reads, edit, page, ostat>>

vars == <<storeVars, shipVars, cod, norm, reads, edit, page, ostat, idb, auth>>

\* ------------------------------------------------------------------ bounds

MaxQty == 2

MaxStock == 2

MaxRates == 2

MaxPrice == 3

CodSpan == 2

\* Math.random() is sampled as n / RandomScale for n within RandomEdge of 0
\* and of RandomScale
RandomScale == 2000

RandomEdge == 20

Impls == {"product", "api", "db"}

Users == {"u1", "u2"}

Pids == {"p1", "p2"}

Keys == Users \X Pids

CallIds == {1, 2, 3}

\* product ids an order may name: the products table has the rows Pids only
ItemPids == Pids \cup {"p3"}

OrderCallIds == {1, 2}

PayRefs == {"", "T1"}

Qtys == 1..MaxQty

\* ------------------------------------------------- remote data gateway (sb)

\* GET cart?uid=eq.U&product_id=eq.P : the matching rows
CartSelect(rows, key) == rows[key]

CartInsert_Unique(rows, key, q) == [rows EXCEPT ![key] = <<q>>]

\* POST cart (no resolution preference): one more row
CartInsert(rows, key, q) == [rows EXCEPT ![key] = Append(@, q)]

\* PATCH cart?uid=eq.U&product_id=eq.P {quantity}: every matching row is set
CartPatch(rows, key, q) == [rows EXCEPT ![key] = [i \in 1..Len(@) |-> q]]

\* POST cart with Prefer: resolution=merge-duplicates. The conflicting row's
\* columns are overwritten by the posted ones (INSERT .. ON CONFLICT DO UPDATE
\* SET col = EXCLUDED.col): the posted quantity replaces the stored one.
CartMerge(rows, key, q) ==
  IF rows[key] = <<>> THEN [rows EXCEPT ![key] = <<q>>]
  ELSE [rows EXCEPT ![key] = [i \in 1..Len(@) |-> q]]

\* GET wishlist?uid=eq.U&product_id=eq.P : number of matching rows
WishSelect(rows, key) == rows[key]

\* POST wishlist (no resolution preference): one more row
WishInsert(rows, key) == [rows EXCEPT ![key] = @ + 1]

\* POST wishlist with Prefer: resolution=ignore-duplicates: a conflicting
\* row is left alone and the request still succeeds
WishInsertIgnore(rows, key) ==
  IF rows[key] > 0 THEN rows ELSE [rows EXCEPT ![key] = 1]

\* ------------------------------------------------------- cart / wishlist calls

IdleCall == [st |-> "idle", op |-> "none", uid |-> "u1", pid |-> "p1", qty |-> 0,
             newQty |-> 0, action |-> "none", rq |-> 0, ovl |-> FALSE]

Active(c) == calls[c].st \in {"read", "patch", "post", "upsert", "remove"}

KeyOf(c) == <<calls[c].uid, calls[c].pid>>

\* `existing && existing.length > 0`
RowFound(existing) == Len(existing) > 0

WishFound_Never(existing) == FALSE

\* `existing && existing.length > 0` on the wishlist rows
WishFound(existing) == existing > 0

\* `existing[0].quantity + quantity`
NewQty(existing, quantity) == Head(existing) + quantity

\* A caller invokes op(uid, product, quantity). Calls are numbered in the order
\* they are invoked; ovl records that the call ran while another was running.
Invoke(c, op, u, p, q) ==
  /\ calls[c].st = "idle"
  /\ \A d \in CallIds : d < c => calls[d].st # "idle"
  /\ LET busy == {d \in CallIds : Active(d)}
         first == IF impl = "db" THEN "upsert" ELSE "read"
     IN calls' = [d \in CallIds |->
                   IF d = c THEN [IdleCall EXCEPT !.st = first, !.op = op, !.uid = u,
                                    !.pid = p, !.qty = q, !.ovl = busy # {}]
                   ELSE IF d \in busy THEN [calls[d] EXCEPT !.ovl = TRUE]
                   ELSE calls[d]]
  /\ UNCHANGED <<impl, cart, wishlist, orderVars, auxVars>>

\* addToCart, first await: GET the existing rows, then branch
addToCart_Check(c, ok) ==
  /\ calls[c].op = "addToCart" /\ calls[c].st = "read"
  /\ IF ~ok THEN calls' = [calls EXCEPT ![c].st = "threw"]
     ELSE LET existing == CartSelect(cart, KeyOf(c))
          IN IF RowFound(existing)
             THEN calls' = [calls EXCEPT ![c].st = "patch",
                              ![c].newQty = NewQty(existing, calls[c].qty)]
             ELSE calls' = [calls EXCEPT ![c].st = "post"]
  /\ UNCHANGED <<impl, cart, wishlist, orderVars, auxVars>>

\* addToCart, found branch: PATCH quantity = newQty, return {updated, newQty}
addToCart_Patch(c, ok) ==
  /\ calls[c].op = "addToCart" /\ calls[c].st = "patch"
  /\ IF ~ok THEN calls' = [calls EXCEPT ![c].st = "threw"] /\ cart' = cart
     ELSE /\ cart' = CartPatch(cart, KeyOf(c), calls[c].newQty)
          /\ calls' = [calls EXCEPT ![c].st = "returned", ![c].action = "updated",
                         ![c].rq = calls[c].newQty]
  /\ UNCHANGED <<impl, wishlist, orderVars, auxVars>>

\* addToCart, not-found branch: POST a fresh row, return {added, quantity}
addToCart_Post(c, ok) ==
  /\ calls[c].op = "addToCart" /\ calls[c].st = "post"
  /\ IF ~ok THEN calls' = [calls EXCEPT ![c].st = "threw"] /\ cart' = cart
     ELSE /\ cart' = CartInsert(cart, KeyOf(c), calls[c].qty)
          /\ calls' = [calls EXCEPT ![c].st = "returned", ![c].action = "added",
                         ![c].rq = calls[c].qty]
  /\ UNCHANGED <<impl, wishlist, orderVars, auxVars>>

\* db_addToCart: one POST with resolution=merge-duplicates, return {added}
db_addToCart(c, ok) ==
  /\ calls[c].op = "addToCart" /\ calls[c].st = "upsert"
  /\ IF ~ok THEN calls' = [calls EXCEPT ![c].st = "threw"] /\ cart' = cart
     ELSE /\ cart' = CartMerge(cart, KeyOf(c), calls[c].qty)
          /\ calls' = [calls EXCEPT ![c].st = "returned", ![c].action = "added"]
  /\ UNCHANGED <<impl, wishlist, orderVars, auxVars>>

\* addToWishlist, first await: GET the existing rows; found => already_exists
addToWishlist_Check(c, ok) ==
  /\ calls[c].op = "addToWishlist" /\ calls[c].st = "read"
  /\ IF ~ok THEN calls' = [calls EXCEPT ![c].st = "threw"]
     ELSE IF WishFound(WishSelect(wishlist, KeyOf(c)))
          THEN calls' = [calls EXCEPT ![c].st = "returned",
                           ![c].action = "already_exists"]
          ELSE calls' = [calls EXCEPT ![c].st = "post"]
  /\ UNCHANGED <<impl, cart, wishlist, orderVars, auxVars>>

\* addToWishlist, not-found branch: POST a row, return {added}
addToWishlist_Post(c, ok) ==
  /\ calls[c].op = "addToWishlist" /\ calls[c].st = "post"
  /\ IF ~ok THEN calls' = [calls EXCEPT ![c].st = "threw"] /\ wishlist' = wishlist
     ELSE /\ wishlist' = WishInsert(wishlist, KeyOf(c))
          /\ calls' = [calls EXCEPT ![c].st = "returned", ![c].action = "added"]
  /\ UNCHANGED <<impl, cart, orderVars, auxVars>>

\* db_addToWishlist: one POST with resolution=ignore-duplicates, return {added}
db_addToWishlist(c, ok) ==
  /\ calls[c].op = "addToWishlist" /\ calls[c].st = "upsert"
  /\ IF ~ok THEN calls' = [calls EXCEPT ![c].st = "threw"] /\ wishlist' = wishlist
     ELSE /\ wishlist' = WishInsertIgnore(wishlist, KeyOf(c))
          /\ calls' = [calls EXCEPT ![c].st = "returned", ![c].action = "added"]
  /\ UNCHANGED <<impl, cart, orderVars, auxVars>>

\* ---------------------------------------------------------------- move to cart

\* DELETE wishlist?uid=eq.U&product_id=eq.P : the matching rows go
WishDelete(rows, key) == [rows EXCEPT ![key] = 0]

AfterAddFailure_Remove(call) == [call EXCEPT !.st = "remove"]

\* addToCart threw: moveToCart's catch rethrows, nothing else runs
AfterAddFailure(call) == [call EXCEPT !.st = "threw"]

\* moveToCart (product.js), `await addToCart(uid, product)`: the GET of the
\* existing cart rows
moveToCart_Check(c, ok) ==
  /\ calls[c].op = "moveToCart" /\ calls[c].st = "read"
  /\ IF ~ok THEN calls' = [calls EXCEPT ![c] = AfterAddFailure(calls[c])]
     ELSE LET existing == CartSelect(cart, KeyOf(c))
          IN IF RowFound(existing)
             THEN calls' = [calls EXCEPT ![c].st = "patch",
                              ![c].newQty = NewQty(existing, calls[c].qty)]
             ELSE calls' = [calls EXCEPT ![c].st = "post"]
  /\ UNCHANGED <<impl, cart, wishlist, orderVars, auxVars>>

\* moveToCart, addToCart's write: the PATCH of the found row or the POST of a
\* fresh one; once it is done the wishlist removal is next
moveToCart_Add(c, ok) ==
  /\ calls[c].op = "moveToCart" /\ calls[c].st \in {"patch", "post"}
  /\ IF ~ok THEN calls' = [calls EXCEPT ![c] = AfterAddFailure(calls[c])] /\ cart' = cart
     ELSE IF calls[c].st = "patch"
     THEN /\ cart' = CartPatch(cart, KeyOf(c), calls[c].newQty)
          /\ calls' = [calls EXCEPT ![c].st = "remove", ![c].action = "updated",
                         ![c].rq = calls[c].newQty]
     ELSE /\ cart' = CartInsert(cart, KeyOf(c), calls[c].qty)
          /\ calls' = [calls EXCEPT ![c].st = "remove", ![c].action = "added",
                         ![c].rq = calls[c].qty]
  /\ UNCHANGED <<impl, wishlist, orderVars, auxVars>>

\* moveToCart, `await removeFromWishlist(uid, product.id); return true`
moveToCart_Remove(c, ok) ==
  /\ calls[c].op = "moveToCart" /\ calls[c].st = "remove"
  /\ IF ~ok THEN calls' = [calls EXCEPT ![c].st = "threw"] /\ wishlist' = wishlist
     ELSE /\ wishlist' = WishDelete(wishlist, KeyOf(c))
          /\ calls' = [calls EXCEPT ![c].st = "returned"]
  /\ UNCHANGED <<impl, cart, orderVars, auxVars>>

\* ------------------------------------------------------------ order placement

CartDeleteUser_FirstProduct(rows, u) == [rows EXCEPT ![<<u, "p1">>] = <<>>]

\* DELETE cart?uid=eq.U : every row of the user goes
CartDeleteUser(rows, u) == [k \in Keys |-> IF k[1] = u THEN <<>> ELSE rows[k]]

PaymentStatus_Pending(paymentRef) == "pending"

\* `payment_status: paymentRef ? "paid" : "pending"`
PaymentStatus(paymentRef) == IF paymentRef # "" THEN "paid" ELSE "pending"

\* Number.prototype.toString for n >= 0: the decimal digits
RECURSIVE Digits(_)
Digits(n) == IF n < 10 THEN <<n>> ELSE Append(Digits(n \div 10), n % 10)

OrderSerial_Wide(random) == ((random * 1000000) \div RandomScale) + 100000

\* `Math.floor(Math.random() * 900000) + 100000`, Math.random() = random / RandomScale
OrderSerial(random) == ((random * 900000) \div RandomScale) + 100000

\* `MC-${year}-${random}`
generateOrderNumber(random, year) ==
  [prefix |-> "MC-", year |-> Digits(year), dash |-> "-", serial |-> Digits(OrderSerial(random))]

\* the order row of the POST body; the backend numbers the rows, and instant
\* 0 is the time of the insert
OrderRow(c, u, items, paymentRef, random, year) ==
  [id |-> Len(orders) + 1, by |-> c, order_number |-> generateOrderNumber(random, year),
   uid |-> u, items |-> items, payment_ref |-> paymentRef,
   payment_status |-> PaymentStatus(paymentRef), status |-> "processing",
   updated_at |-> 0]

OrderedQty_One(item) == 1

\* `item.quantity || 1`
OrderedQty(item) == IF item.qty = 0 THEN 1 ELSE item.qty

NewStock_NoFloor(currentStock, item) == currentStock - OrderedQty(item)

\* `Math.max(0, currentStock - (item.quantity || 1))`
NewStock(currentStock, item) ==
  IF currentStock - OrderedQty(item) > 0 THEN currentStock - OrderedQty(item) ELSE 0

NoCall == [ins |-> "none", uid |-> "u1", items |-> <<>>, year |-> 0, clr |-> "none",
           st |-> <<>>, rd |-> <<>>, cust |-> "none", ret |-> "none"]

ItemFinished(s) == s \in {"done", "failed", "norow"}

AllItemsFinished(call) == \A k \in 1..Len(call.st) : ItemFinished(call.st[k])

\* The sequential rewrites await the cart clear, then each item in list order;
\* db_placeOrder starts every task at once and awaits none of them.
ClearEnabled(call) == call.clr = "todo" /\ (impl = "db" \/ call.ret = "none")

ItemEnabled_Unordered(call, k) == k \in 1..Len(call.st)

ItemEnabled(call, k) ==
  /\ k \in 1..Len(call.st)
  /\ impl # "db" =>
       /\ call.ret = "none"
       /\ call.clr \in {"ok", "failed"}
       /\ \A j \in 1..(k - 1) : ItemFinished(call.st[j])

\* What the caller has once the stock loop is over: actions.placeOrder returns
\* the created row; placeOrder (product.js) still has the customers PATCH to do.
AfterLoop(call) ==
  IF impl = "api" /\ AllItemsFinished(call) THEN [call EXCEPT !.ret = "order"]
  ELSE IF impl = "product" /\ AllItemsFinished(call) THEN [call EXCEPT !.cust = "todo"]
  ELSE call

AfterInsertFailure_Continue(u, items) ==
  [NoCall EXCEPT !.ins = "failed", !.uid = u, !.items = items, !.clr = "todo"]

\* `await sb('orders', ...)` throws: the function is left with the error
AfterInsertFailure(u, items) ==
  [NoCall EXCEPT !.ins = "failed", !.uid = u, !.items = items, !.ret = "error"]

\* POST orders. A failed insert throws out of the function: nothing else runs.
\* db_placeOrder returns the created row right after starting its tasks.
placeOrder_Insert(c, u, items, paymentRef, random, year, ok) ==
  /\ ocalls[c].ins = "none"
  /\ \A d \in OrderCallIds : d < c => ocalls[d].ins # "none"
  /\ IF ~ok
     THEN /\ ocalls' = [ocalls EXCEPT ![c] = [AfterInsertFailure(u, items) EXCEPT !.year = year]]
          /\ orders' = orders
     ELSE /\ orders' = Append(orders, OrderRow(c, u, items, paymentRef, random, year))
          /\ ocalls' = [ocalls EXCEPT ![c] =
               [NoCall EXCEPT !.ins = "ok", !.uid = u, !.items = items, !.year = year,
                              !.clr = "todo",
                              !.st = [k \in 1..Len(items) |-> "todo"],
                              !.rd = [k \in 1..Len(items) |-> 0],
                              !.ret = IF impl = "db" THEN "order" ELSE "none"]]
  /\ UNCHANGED <<impl, cartVars, stock, stock0, auxVars>>

\* Clear the placing user's cart. clearCart and db_clearCart swallow a failure;
\* actions.placeOrder awaits the DELETE bare, so a failure throws out of it.
placeOrder_ClearCart(c, ok) ==
  /\ ClearEnabled(ocalls[c])
  /\ IF ok
     THEN /\ cart' = CartDeleteUser(cart, ocalls[c].uid)
          /\ ocalls' = [ocalls EXCEPT ![c].clr = "ok"]
     ELSE /\ cart' = cart
          /\ ocalls' = [ocalls EXCEPT ![c].clr = "failed",
                          ![c].ret = IF impl = "api" THEN "error" ELSE @]
  /\ UNCHANGED <<impl, wishlist, calls, orders, stock, stock0, auxVars>>

\* GET products?select=stock&id=eq.P for item k; no row: the item is skipped
placeOrder_StockRead(c, k, ok) ==
  /\ ItemEnabled(ocalls[c], k) /\ ocalls[c].st[k] = "todo"
  /\ LET pid == ocalls[c].items[k].pid
         next == IF ~ok THEN "failed" ELSE IF pid \in DOMAIN stock THEN "read" ELSE "norow"
         call == [ocalls[c] EXCEPT !.st[k] = next,
                    !.rd[k] = IF next = "read" THEN stock[pid] ELSE 0]
     IN ocalls' = [ocalls EXCEPT ![c] = AfterLoop(call)]
  /\ UNCHANGED <<impl, cartVars, orders, stock, stock0, auxVars>>

placeOrder_StockWrite_Atomic(c, k, ok) ==
  /\ ItemEnabled(ocalls[c], k) /\ ocalls[c].st[k] = "read"
  /\ LET item == ocalls[c].items[k]
         call == [ocalls[c] EXCEPT !.st[k] = IF ok THEN "done" ELSE "failed"]
     IN /\ stock' = IF ok THEN [stock EXCEPT ![item.pid] = NewStock(stock[item.pid], item)]
                    ELSE stock
        /\ ocalls' = [ocalls EXCEPT ![c] = AfterLoop(call)]
  /\ UNCHANGED <<impl, cartVars, orders, stock0, auxVars>>

\* PATCH products?id=eq.P {stock: newStock} for item k
placeOrder_StockWrite(c, k, ok) ==
  /\ ItemEnabled(ocalls[c], k) /\ ocalls[c].st[k] = "read"
  /\ LET item == ocalls[c].items[k]
         call == [ocalls[c] EXCEPT !.st[k] = IF ok THEN "done" ELSE "failed"]
     IN /\ stock' = IF ok THEN [stock EXCEPT ![item.pid] = NewStock(ocalls[c].rd[k], item)]
                    ELSE stock
        /\ ocalls' = [ocalls EXCEPT ![c] = AfterLoop(call)]
  /\ UNCHANGED <<impl, cartVars, orders, stock0, auxVars>>

\* placeOrder (product.js) only: PATCH customers after the loop, inside the
\* function's try block: a failure surfaces as "Could not place your order"
placeOrder_CustomerPatch(c, ok) ==
  /\ impl = "product" /\ ocalls[c].cust = "todo"
  /\ ocalls' = [ocalls EXCEPT ![c].cust = IF ok THEN "ok" ELSE "failed",
                  ![c].ret = IF ok THEN "order" ELSE "error"]
  /\ UNCHANGED <<impl, cartVars, orders, stock, stock0, auxVars>>

\* ------------------------------------------------------ shipping rate resolver

\* Text is a sequence of one-character strings, so that toLowerCase and
\* includes are computed and not assumed.
UpperChars == <<"A","B","C","D","E","F","G","H","I","J","K","L","M",
                "N","O","P","Q","R","S","T","U","V","W","X","Y","Z">>

LowerChars == <<"a","b","c","d","e","f","g","h","i","j","k","l","m",
                "n","o","p","q","r","s","t","u","v","w","x","y","z">>

LowerChar(ch) ==
  IF \E i \in 1..Len(UpperChars) : UpperChars[i] = ch
  THEN LowerChars[CHOOSE i \in 1..Len(UpperChars) : UpperChars[i] = ch]
  ELSE ch

\* String.prototype.toLowerCase
ToLowerCase(str) == [i \in 1..Len(str) |-> LowerChar(str[i])]

\* String.prototype.includes
Includes(str, sub) ==
  \E i \in 0..(Len(str) - Len(sub)) : SubSeq(str, i + 1, i + Len(sub)) = sub

Eta(days, text) == [days |-> days, text |-> text]

FlatRate(id, name, fee, eta) ==
  [courier_id |-> id, courier_name |-> name, service_code |-> "",
   delivery_fee |-> fee, eta |-> Eta(0, eta), logo |-> ""]

FlatPair(prefix, expressFee, expressEta, standardFee, standardEta) ==
  << FlatRate(<<prefix, "-express">>, "Express Delivery", expressFee, expressEta),
     FlatRate(<<prefix, "-standard">>, "Standard Delivery", standardFee, standardEta) >>

SouthWest == { <<"o","s","u","n">>, <<"o","n","d","o">>, <<"e","k","i","t","i">>,
               <<"o","g","u","n">>, <<"k","w","a","r","a">>, <<"k","o","g","i">>,
               <<"e","d","o">> }

SouthSouth == { <<"r","i","v","e","r","s">>, <<"d","e","l","t","a">>,
                <<"a","n","a","m","b","r","a">>, <<"i","m","o">>,
                <<"e","n","u","g","u">>, <<"a","b","i","a">>, <<"a","k","w","a">> }

flatRates_CaseSensitive(state) ==
  LET s == state
  IN IF Includes(s, <<"o","y","o">>)
       THEN FlatPair("local", 1500, "Same day / Next day", 800, "1-2 business days")
     ELSE IF Includes(s, <<"l","a","g","o","s">>)
       THEN FlatPair("lagos", 3500, "1-2 business days", 2000, "2-3 business days")
     ELSE IF Includes(s, <<"a","b","u","j","a">>) \/ Includes(s, <<"f","c","t">>)
       THEN FlatPair("abuja", 4000, "2-3 business days", 2500, "3-5 business days")
     ELSE IF \E x \in SouthWest : Includes(s, x)
       THEN FlatPair("sw", 2500, "1-3 business days", 1500, "2-4 business days")
     ELSE IF \E x \in SouthSouth : Includes(s, x)
       THEN FlatPair("ss", 4500, "2-4 business days", 2800, "3-5 business days")
     ELSE FlatPair("ng", 5500, "3-5 business days", 3500, "5-7 business days")

\* flatRates(state): the static table, keyed by substring of the lowered state
flatRates(state) ==
  LET s == ToLowerCase(state)
  IN IF Includes(s, <<"o","y","o">>)
       THEN FlatPair("local", 1500, "Same day / Next day", 800, "1-2 business days")
     ELSE IF Includes(s, <<"l","a","g","o","s">>)
       THEN FlatPair("lagos", 3500, "1-2 business days", 2000, "2-3 business days")
     ELSE IF Includes(s, <<"a","b","u","j","a">>) \/ Includes(s, <<"f","c","t">>)
       THEN FlatPair("abuja", 4000, "2-3 business days", 2500, "3-5 business days")
     ELSE IF \E x \in SouthWest : Includes(s, x)
       THEN FlatPair("sw", 2500, "1-3 business days", 1500, "2-4 business days")
     ELSE IF \E x \in SouthSouth : Includes(s, x)
       THEN FlatPair("ss", 4500, "2-4 business days", 2800, "3-5 business days")
     ELSE FlatPair("ng", 5500, "3-5 business days", 3500, "5-7 business days")

\* a || b for text and for numbers: the first that is not empty / zero
OrStr(a, b) == IF a # "" THEN a ELSE b

OrNum(a, b) == IF a # 0 THEN a ELSE b

\* one entry of rawRates.map(...)
MapRate(r) ==
  [courier_id   |-> OrStr(r.courier_id, OrStr(r.id, "")),
   courier_name |-> OrStr(r.courier_name, OrStr(r.name, "Courier")),
   service_code |-> OrStr(r.service_code, OrStr(r.code, "")),
   delivery_fee |-> OrNum(r.total, OrNum(r.fee, OrNum(r.amount, 0))),
   eta          |-> IF r.estimated_days # 0 THEN Eta(r.estimated_days, " business day(s)")
                    ELSE Eta(0, OrStr(r.eta, "2-5 days")),
   logo         |-> OrStr(r.courier_logo, OrStr(r.logo, ""))]

RawRates_DataOnly(remote) ==
  IF ~remote.ok THEN <<>>
  ELSE IF remote.data.kind # "absent" THEN remote.data.list
  ELSE <<>>

\* `ok ? (data.data || data.rates || []) : []`; an empty array is truthy, and
\* a value that is no array has no length
RawRates(remote) ==
  IF ~remote.ok THEN <<>>
  ELSE IF remote.data.kind # "absent" THEN remote.data.list
  ELSE IF remote.rates.kind # "absent" THEN remote.rates.list
  ELSE <<>>

NoRemote == [kind |-> "none", ok |-> FALSE,
             data |-> [kind |-> "absent", list |-> <<>>],
             rates |-> [kind |-> "absent", list |-> <<>>]]

NoResponse == [status |-> 0, ok |-> FALSE, rates |-> <<>>, source |-> "none",
               error |-> FALSE]

NoRequest == [method |-> "none", action |-> "none", hasAddress |-> FALSE, state |-> <<>>]

NoResult == [kind |-> "none", delivered |-> FALSE, rates |-> <<>>]

Fallback_Empty(req, withError) ==
  [status |-> 200, ok |-> TRUE, rates |-> <<>>, source |-> "fallback", error |-> withError]

\* the fallback response; the catch block adds the error message
Fallback(req, withError) ==
  [status |-> 200, ok |-> TRUE, rates |-> flatRates(req.state), source |-> "fallback",
   error |-> withError]

\* getRates (shipping.js) sends POST /api/shipping {action: 'getRates', payload};
\* any other client may send the endpoint anything
SendRequest(method, action, hasAddress, state) ==
  /\ shipReq = NoRequest
  /\ shipReq' = [method |-> method, action |-> action, hasAddress |-> hasAddress,
                 state |-> IF hasAddress THEN state ELSE <<>>]
  /\ UNCHANGED <<exceptShip, shipRemote, shipRes, shipOut>>

\* handler, the early returns: OPTIONS, not POST, unknown action
handler_Reject ==
  /\ shipReq # NoRequest /\ shipRes = NoResponse
  /\ shipReq.method # "POST" \/ shipReq.action \notin {"getRates", "bookShipment"}
  /\ shipRes' = [NoResponse EXCEPT
                   !.status = IF shipReq.method = "OPTIONS" THEN 200
                              ELSE IF shipReq.method # "POST" THEN 405 ELSE 400]
  /\ UNCHANGED <<exceptShip, shipReq, shipRemote, shipOut>>

\* handler, action getRates. Reading recipientAddress.fullName of a missing
\* address throws before the courier call is made; a rejected fetch, a body
\* that is not JSON, or a null body throw after it. The catch answers with the
\* flat rates.
handler_getRates(remote) ==
  /\ shipReq # NoRequest /\ shipRes = NoResponse
  /\ shipReq.method = "POST" /\ shipReq.action = "getRates"
  /\ IF ~shipReq.hasAddress
     THEN shipRemote' = NoRemote /\ shipRes' = Fallback(shipReq, TRUE)
     ELSE /\ shipRemote' = remote
          /\ IF remote.kind \in {"throw", "null"}
             THEN shipRes' = Fallback(shipReq, TRUE)
             ELSE LET rawRates == RawRates(remote)
                  IN IF Len(rawRates) = 0
                     THEN shipRes' = Fallback(shipReq, FALSE)
                     ELSE shipRes' = [status |-> 200, ok |-> TRUE,
                                      rates |-> [i \in 1..Len(rawRates) |-> MapRate(rawRates[i])],
                                      source |-> "shipbubble", error |-> FALSE]
  /\ UNCHANGED <<exceptShip, shipReq, shipOut>>

\* the two answers of the bookShipment branch: the shipment's tracking fields
\* with ok: true, or ok: false with an error text; neither carries rates
Booked == [NoResponse EXCEPT !.status = 200, !.ok = TRUE]

Refused == [NoResponse EXCEPT !.status = 200, !.error = TRUE]

\* handler, action bookShipment, with an order in the payload. A rejected
\* fetch, a body that is not JSON, or a null body throw and land in the same
\* catch as getRates, which answers ok: true with the flat rates of
\* payload?.recipientAddress?.state; `!ok || !data.data` answers ok: false.
handler_bookShipment(remote) ==
  /\ shipReq # NoRequest /\ shipRes = NoResponse
  /\ shipReq.method = "POST" /\ shipReq.action = "bookShipment"
  /\ shipRemote' = remote
  /\ IF remote.kind \in {"throw", "null"}
     THEN shipRes' = Fallback(shipReq, TRUE)
     ELSE IF ~remote.ok \/ remote.data.kind = "absent"
     THEN shipRes' = Refused
     ELSE shipRes' = Booked
  /\ UNCHANGED <<exceptShip, shipReq, shipOut>>

\* getRates (shipping.js), after the fetch: a failed fetch or `!data.ok` throws,
\* otherwise `data.rates || []` is returned
getRates_Result(delivered) ==
  /\ shipRes # NoResponse /\ shipOut = NoResult
  /\ shipOut' = IF ~delivered \/ ~shipRes.ok
                  THEN [kind |-> "threw", delivered |-> delivered, rates |-> <<>>]
                ELSE [kind |-> "rates", delivered |-> delivered, rates |-> shipRes.rates]
  /\ UNCHANGED <<exceptShip, shipReq, shipRemote, shipRes>>

\* ------------------------------------------------------------ cash on delivery

COD_MIN == 7000

COD_MAX == 50000

Reason(kind, limit, total) == [kind |-> kind, limit |-> limit, total |-> total]

NoReason == Reason("none", 0, 0)

validateCOD_Exclusive(totalAmount) ==
  IF totalAmount <= COD_MIN
    THEN [valid |-> FALSE, reason |-> Reason("below_min", COD_MIN, totalAmount)]
  ELSE IF totalAmount >= COD_MAX
    THEN [valid |-> FALSE, reason |-> Reason("above_max", COD_MAX, 0)]
  ELSE [valid |-> TRUE, reason |-> NoReason]

\* validateCOD(totalAmount); the reason texts quote the limit, and the first
\* one the total as well
validateCOD(totalAmount) ==
  IF totalAmount < COD_MIN
    THEN [valid |-> FALSE, reason |-> Reason("below_min", COD_MIN, totalAmount)]
  ELSE IF totalAmount > COD_MAX
    THEN [valid |-> FALSE, reason |-> Reason("above_max", COD_MAX, 0)]
  ELSE [valid |-> TRUE, reason |-> NoReason]

NoPayment == [kind |-> "none", message |-> NoReason, method |-> "", status |-> "",
              reference |-> 0, amount |-> 0]

\* processCOD(totalAmount) at time `now`: throws Error(check.reason), or
\* returns the payment object with reference `COD-${Date.now()}`
processCOD(totalAmount, now) ==
  LET check == validateCOD(totalAmount)
  IN IF ~check.valid
     THEN [NoPayment EXCEPT !.kind = "threw", !.message = check.reason]
     ELSE [kind |-> "returned", message |-> NoReason, method |-> "cash_on_delivery",
           status |-> "pending", reference |-> now, amount |-> totalAmount]

NoCod == [vTotal |-> 0, check |-> [valid |-> FALSE, reason |-> NoReason],
          pTotal |-> 0, payment |-> NoPayment]

validateCOD_Call(totalAmount) ==
  /\ cod' = [cod EXCEPT !.vTotal = totalAmount, !.check = validateCOD(totalAmount)]
  /\ UNCHANGED exceptCod

processCOD_Call(totalAmount, now) ==
  /\ cod' = [cod EXCEPT !.pTotal = totalAmount, !.payment = processCOD(totalAmount, now)]
  /\ UNCHANGED exceptCod

\* ------------------------------------------------------------ product normalizer

\* JavaScript values: undefined, null, NaN, a number n, a text s; a text that
\* is the decimal form of n has s = "#"
Undefined == [t |-> "undefined", n |-> 0, s |-> ""]

Null == [t |-> "null", n |-> 0, s |-> ""]

NaN == [t |-> "nan", n |-> 0, s |-> ""]

Num(n) == [t |-> "number", n |-> n, s |-> ""]

Str(s) == [t |-> "string", n |-> 0, s |-> s]

NumStr(n) == [t |-> "string", n |-> n, s |-> "#"]

\* truthiness: 0, NaN, '', null and undefined are falsy
Truthy(v) ==
  \/ v.t = "number" /\ v.n # 0
  \/ v.t = "string" /\ v.s # ""

\* a || b
Or(a, b) == IF Truthy(a) THEN a ELSE b

\* Number(v)
ToNumber(v) ==
  IF v.t = "number" THEN v
  ELSE IF v.t = "null" THEN Num(0)
  ELSE IF v.t = "string" /\ v.s = "#" THEN Num(v.n)
  ELSE IF v.t = "string" /\ v.s = "" THEN Num(0)
  ELSE NaN

\* a < b on numbers; false when either side is NaN
Less(a, b) == a.t = "number" /\ b.t = "number" /\ a.n < b.n

ListedPrice_Shown(p) ==
  IF Truthy(p.display_price) THEN p.display_price ELSE Or(ToNumber(p.price), Num(0))

\* `Number(p.price) || 0`
ListedPrice(p) == Or(ToNumber(p.price), Num(0))

\* `p.promo_price ? Number(p.promo_price) : 0`
PromoPrice(p) == IF Truthy(p.promo_price) THEN ToNumber(p.promo_price) ELSE Num(0)

HasPromo_AnyPositive(promo, price) == Less(Num(0), promo)

\* `promo > 0 && promo < price`
HasPromo(promo, price) == Less(Num(0), promo) /\ Less(promo, price)

\* `Array.isArray(p.images) && p.images.length > 0 ? p.images[0] : null`
FirstImage(images) ==
  IF images.isArray /\ Len(images.list) > 0 THEN images.list[1] ELSE Null

\* normalizeProduct(p) / normalise(p): a missing product is handed back as is
normalizeProduct(p) ==
  IF ~p.exists THEN p
  ELSE LET price == ListedPrice(p)
           promo == PromoPrice(p)
           hasPromo == HasPromo(promo, price)
       IN [p EXCEPT
             !.name = Or(p.name, Or(p.title, Str("Unnamed Product"))),
             !.image_url = Or(Or(Or(p.image_url, FirstImage(p.images)), p.image), Null),
             !.display_price = IF hasPromo THEN promo ELSE price,
             !.original_price = IF hasPromo THEN price ELSE Null]

NoProduct ==
  [exists |-> FALSE, name |-> Undefined, title |-> Undefined, image_url |-> Undefined,
   images |-> [isArray |-> FALSE, list |-> <<>>], image |-> Undefined,
   price |-> Undefined, promo_price |-> Undefined,
   display_price |-> Undefined, original_price |-> Undefined]

NoNorm == [stage |-> "none", raw |-> NoProduct, once |-> NoProduct, twice |-> NoProduct]

\* the rows the products table may hold: every field present or absent
PriceInputs ==
  {Undefined, Null, Str("abc"), NumStr(2)} \cup {Num(n) : n \in (0 - 1)..MaxPrice}

Products ==
  {NoProduct} \cup
  [exists : {TRUE},
   name : {Undefined, Str(""), Str("Bag")},
   title : {Undefined, Str("Tote")},
   image_url : {Undefined, Null, Str("u.png")},
   images : {[isArray |-> FALSE, list |-> <<>>], [isArray |-> TRUE, list |-> <<>>],
             [isArray |-> TRUE, list |-> <<Str("i.png")>>],
             [isArray |-> TRUE, list |-> <<Str(""), Str("j.png")>>]},
   image : {Undefined, Str("g.png")},
   price : PriceInputs,
   promo_price : PriceInputs,
   display_price : {Undefined, Num(1)},
   original_price : {Undefined}]

\* a row comes back from the products table
LoadProduct ==
  /\ norm.stage = "none"
  /\ \E p \in Products : norm' = [NoNorm EXCEPT !.stage = "raw", !.raw = p]
  /\ UNCHANGED exceptNorm

\* the row is normalized, and what came out is normalized again
normalizeProduct_Call ==
  /\ norm.stage \in {"raw", "once"}
  /\ norm' = IF norm.stage = "raw"
             THEN [norm EXCEPT !.stage = "once", !.once = normalizeProduct(norm.raw)]
             ELSE [norm EXCEPT !.stage = "twice", !.twice = normalizeProduct(norm.once)]
  /\ UNCHANGED exceptNorm

\* ------------------------------------------------------------ read operations

ReadOps == {"getProducts", "getProductById", "getCart", "getCartCount", "getWishlist",
            "getWishlistCount", "isInWishlist", "getReviews", "getMyOrders", "getAllOrders"}

\* the two browser clients of the /api/supabase route
Clients == {"db.js", "part_002"}

\* what each read returns from its catch block
Default(op) ==
  IF op = "getProductById" THEN "null"
  ELSE IF op \in {"getCartCount", "getWishlistCount"} THEN "zero"
  ELSE IF op = "isInWishlist" THEN "false"
  ELSE "empty_list"

\* Whether the read wraps its remote call in try/catch. product.js and the
\* direct db.js (202-475) do for every read. Behind the /api/supabase route the
\* db.js client (1-200) does so only for the reads it sends straight to the
\* backend (products, reviews); every other read is `return await api(...)`.
Caught(client, op) ==
  IF impl \in {"product", "db"} THEN TRUE
  ELSE client = "db.js" /\ op \in {"getProducts", "getProductById", "getReviews"}

\* the reads that take the user's id
UserReads == {"getCart", "getCartCount", "getWishlist", "getWishlistCount", "isInWishlist",
              "getMyOrders"}

NoRead == [op |-> "none", uid |-> "", client |-> "none", outcome |-> "none", got |-> "none"]

\* One read call. Its remote call succeeds or fails at the backend; behind the
\* route the handler then answers 500 {ok: false}, and the route itself may be
\* unreachable: `api` throws on both.
Read(op, uid, client, outcome) ==
  /\ outcome = "route_failed" => impl = "api"
  /\ reads' = [op |-> op, uid |-> IF op \in UserReads THEN uid ELSE "",
               client |-> IF impl = "api" THEN client ELSE "none",
               outcome |-> outcome,
               got |-> IF outcome = "ok" THEN "data"
                       ELSE IF Caught(client, op) THEN Default(op) ELSE "threw"]
  /\ UNCHANGED exceptReads

\* ------------------------------------------------------ cart update and clear

\* DELETE cart?uid=eq.U&product_id=eq.P : the matching rows go
CartDelete(rows, key) == [rows EXCEPT ![key] = <<>>]

RemoveInstead_Negative(quantity) == quantity < 0

\* `if (quantity <= 0) return removeFromCart(uid, productId)`
RemoveInstead(quantity) == quantity <= 0

\* clearCart (product.js) and db_clearCart catch the failed DELETE;
\* actions.clearCart awaits it bare, the handler answers ok: false and the
\* client's `api` throws
ClearSwallows == impl \in {"product", "db"}

NoEdit == [op |-> "none", uid |-> "u1", pid |-> "p1", qty |-> 0, ok |-> FALSE,
           threw |-> FALSE, before |-> [k \in Keys |-> <<>>]]

\* updateCartQuantity / updateCartQty / db_updateCartQty: one remote call, a
\* DELETE when quantity <= 0 and a PATCH otherwise; its failure throws
updateCartQty(uid, productId, quantity, ok) ==
  /\ cart' = IF ~ok THEN cart
             ELSE IF RemoveInstead(quantity) THEN CartDelete(cart, <<uid, productId>>)
             ELSE CartPatch(cart, <<uid, productId>>, quantity)
  /\ edit' = [op |-> "updateCartQty", uid |-> uid, pid |-> productId, qty |-> quantity,
              ok |-> ok, threw |-> ~ok, before |-> cart]
  /\ UNCHANGED exceptCartEdit

\* clearCart / db_clearCart / actions.clearCart: DELETE cart?uid=eq.U
clearCart(uid, ok) ==
  /\ cart' = IF ok THEN CartDeleteUser(cart, uid) ELSE cart
  /\ edit' = [op |-> "clearCart", uid |-> uid, pid |-> "p1", qty |-> 0,
              ok |-> ok, threw |-> ~ok /\ ~ClearSwallows, before |-> cart]
  /\ UNCHANGED exceptCartEdit

\* ------------------------------------------------------ payment script loader

PayCallIds == {1, 2, 3}

NoPayCall == [fn |-> "none", st |-> "idle", script |-> 0]

\* a fresh page: no PaystackPop global, no script element
NoPage == [PaystackPop |-> FALSE, scripts |-> <<>>, pc |-> [c \in PayCallIds |-> NoPayCall]]

\* what the caller of fn has once the loader's promise resolved / rejected:
\* initiatePayment opens the popup, or throws "Could not open payment"
Resolved(fn) == IF fn = "initiatePayment" THEN "opened" ELSE "resolved"

Rejected(fn) == IF fn = "initiatePayment" THEN "threw" ELSE "rejected"

\* loadPaystackScript, called directly or by initiatePayment: resolve at once
\* when window.PaystackPop is set, else append a script element and wait for
\* its onload / onerror
loadPaystackScript(c, fn) ==
  /\ page.pc[c].st = "idle"
  /\ \A d \in PayCallIds : d < c => page.pc[d].st # "idle"
  /\ IF page.PaystackPop
     THEN page' = [page EXCEPT !.pc[c] = [fn |-> fn, st |-> Resolved(fn), script |-> 0]]
     ELSE page' = [page EXCEPT !.scripts = Append(@, "loading"),
                               !.pc[c] = [fn |-> fn, st |-> "waiting",
                                          script |-> Len(page.scripts) + 1]]
  /\ UNCHANGED exceptPage

\* script element k has loaded: it defines window.PaystackPop and its onload
\* resolves the call that appended it
script_onload(k) ==
  /\ k \in 1..Len(page.scripts) /\ page.scripts[k] = "loading"
  /\ page' = [page EXCEPT
       !.PaystackPop = TRUE,
       !.scripts[k] = "loaded",
       !.pc = [c \in PayCallIds |->
                 IF page.pc[c].st = "waiting" /\ page.pc[c].script = k
                 THEN [page.pc[c] EXCEPT !.st = Resolved(page.pc[c].fn)]
                 ELSE page.pc[c]]]
  /\ UNCHANGED exceptPage

\* script element k failed to load: its onerror rejects the call
script_onerror(k) ==
  /\ k \in 1..Len(page.scripts) /\ page.scripts[k] = "loading"
  /\ page' = [page EXCEPT
       !.scripts[k] = "failed",
       !.pc = [c \in PayCallIds |->
                 IF page.pc[c].st = "waiting" /\ page.pc[c].script = k
                 THEN [page.pc[c] EXCEPT !.st = Rejected(page.pc[c].fn)]
                 ELSE page.pc[c]]]
  /\ UNCHANGED exceptPage

\* ---------------------------------------------------------------- order status

StatusPatch_WithItems(row, status, now) ==
  [row EXCEPT !.status = status, !.updated_at = now, !.items = <<>>]

\* the PATCH body `{ status, updated_at: new Date().toISOString() }` on a row
StatusPatch(row, status, now) == [row EXCEPT !.status = status, !.updated_at = now]

NoStatusCall == [orderId |-> 0, status |-> "", ok |-> FALSE, threw |-> FALSE]

\* updateOrderStatus / db_updateOrderStatus: PATCH orders?id=eq.<orderId>; a
\* failure throws, an id no row has changes nothing
updateOrderStatus(orderId, status, now, ok) ==
  /\ orders' = IF ~ok THEN orders
               ELSE [i \in 1..Len(orders) |->
                       IF orders[i].id = orderId THEN StatusPatch(orders[i], status, now)
                       ELSE orders[i]]
  /\ ostat' = [orderId |-> orderId, status |-> status, ok |-> ok, threw |-> ~ok]
  /\ UNCHANGED exceptOrderStatus

\* ------------------------------------------------------------ local session store

SESSION_KEY == "currentUser"

\* An object handed to saveSession or read back from the store. Text fields
\* that are absent are ""; phone numbers are sequences of characters; loginAt
\* 0 is an absent loginAt; `extra` names a field the record has no place for.
Object(key, uid, fullName, phone, loginAt, savedAt, extra) ==
  [key |-> key, uid |-> uid, fullName |-> fullName, email |-> "", phone |-> phone,
   address |-> "", loginAt |-> loginAt, savedAt |-> savedAt, extra |-> extra]

\* `e.target.result || null` of a key that is not stored
NoRecord == Object("", "", "", <<>>, 0, 0, "")

\* the record saveSession builds from userData at instant `now`
SessionRecord(userData, now) ==
  [key |-> SESSION_KEY, uid |-> userData.uid, fullName |-> userData.fullName,
   email |-> userData.email, phone |-> userData.phone, address |-> userData.address,
   loginAt |-> IF userData.loginAt # 0 THEN userData.loginAt ELSE now,
   savedAt |-> now, extra |-> ""]

Put_Add(store, record) == store \cup {record}

\* store.put(record) on an object store with keyPath "key"
Put(store, record) == {r \in store : r.key # record.key} \cup {record}

\* store.delete(key)
Delete(store, key) == {r \in store : r.key # key}

\* store.get(key)
Get(store, key) ==
  IF \E r \in store : r.key = key THEN CHOOSE r \in store : r.key = key ELSE NoRecord

\* `current[field] = value`
Assign(obj, field, value) ==
  IF field = "uid" THEN [obj EXCEPT !.uid = value]
  ELSE IF field = "fullName" THEN [obj EXCEPT !.fullName = value]
  ELSE IF field = "key" THEN [obj EXCEPT !.key = value]
  ELSE [obj EXCEPT !.extra = field]

NoUpdate == [active |-> FALSE, current |-> NoRecord]

\* last / saved: whether the latest successful write was a put or a delete,
\* and the record of the latest put
NoIdb == [store |-> {}, op |-> "none", outcome |-> "none", result |-> "none",
          error |-> "none", got |-> NoRecord, last |-> "none", saved |-> NoRecord,
          pending |-> NoUpdate]

\* how a call on the store ends: the database opens and the request succeeds,
\* indexedDB.open fails, or the request fails
Outcomes == {"ok", "open_failed", "request_failed"}

\* the store and its history after saveSession(userData) at `now`
AfterSave(db, userData, now, outcome) ==
  IF outcome # "ok" THEN db
  ELSE [db EXCEPT !.store = Put(@, SessionRecord(userData, now)),
                  !.last = "saved", !.saved = SessionRecord(userData, now)]

\* saveSession: resolves true, or throws what openDB or the request gave
saveSession(userData, now, outcome) ==
  /\ idb' = [AfterSave(idb, userData, now, outcome) EXCEPT
               !.op = "saveSession", !.outcome = outcome, !.got = NoRecord,
               !.result = IF outcome = "ok" THEN "true" ELSE "threw",
               !.error = IF outcome = "ok" THEN "none" ELSE "store"]
  /\ UNCHANGED exceptSession

\* what getSession hands its caller: the record or null; null as well when
\* the database does not open (caught); a failed request rejects
GetSessionResult(db, outcome) ==
  IF outcome = "request_failed" THEN [kind |-> "threw", value |-> NoRecord]
  ELSE IF outcome = "open_failed" THEN [kind |-> "null", value |-> NoRecord]
  ELSE IF Get(db.store, SESSION_KEY) = NoRecord THEN [kind |-> "null", value |-> NoRecord]
  ELSE [kind |-> "record", value |-> Get(db.store, SESSION_KEY)]

getSession(outcome) ==
  /\ idb' = [idb EXCEPT !.op = "getSession", !.outcome = outcome,
               !.result = GetSessionResult(idb, outcome).kind,
               !.error = IF outcome = "request_failed" THEN "store" ELSE "none",
               !.got = GetSessionResult(idb, outcome).value]
  /\ UNCHANGED exceptSession

\* `session !== null && session.uid !== ""`
LoggedIn(session) == session.kind # "null" /\ session.value.uid # ""

isLoggedIn(outcome) ==
  /\ LET session == GetSessionResult(idb, outcome)
     IN idb' = [idb EXCEPT !.op = "isLoggedIn", !.outcome = outcome, !.got = NoRecord,
                  !.result = IF session.kind = "threw" THEN "threw"
                             ELSE IF LoggedIn(session) THEN "true" ELSE "false",
                  !.error = IF session.kind = "threw" THEN "store" ELSE "none"]
  /\ UNCHANGED exceptSession

\* clearSession: resolves true, or throws
clearSession(outcome) ==
  /\ idb' = [idb EXCEPT !.op = "clearSession", !.outcome = outcome, !.got = NoRecord,
               !.store = IF outcome = "ok" THEN Delete(@, SESSION_KEY) ELSE @,
               !.last = IF outcome = "ok" THEN "cleared" ELSE @,
               !.result = IF outcome = "ok" THEN "true" ELSE "threw",
               !.error = IF outcome = "ok" THEN "none" ELSE "store"]
  /\ UNCHANGED exceptSession

\* updateSession, up to its second await: read the session, throw "No active
\* session to update." when there is none, else set the field
updateSession_Read(field, value, outcome) ==
  /\ ~idb.pending.active
  /\ LET session == GetSessionResult(idb, outcome)
     IN idb' = [idb EXCEPT
                  !.op = "updateSession", !.outcome = outcome, !.got = NoRecord,
                  !.result = IF session.kind = "record" THEN "none" ELSE "threw",
                  !.error = IF session.kind = "record" THEN "none"
                            ELSE IF session.kind = "null" THEN "no_session" ELSE "store",
                  !.pending = IF session.kind = "record"
                              THEN [active |-> TRUE,
                                    current |-> Assign(session.value, field, value)]
                              ELSE NoUpdate]
  /\ UNCHANGED exceptSession

\* updateSession, the rest: `await saveSession(current); return true`
updateSession_Save(now, outcome) ==
  /\ idb.pending.active
  /\ idb' = [AfterSave(idb, idb.pending.current, now, outcome) EXCEPT
               !.op = "updateSession", !.outcome = outcome, !.got = NoRecord,
               !.result = IF outcome = "ok" THEN "true" ELSE "threw",
               !.error = IF outcome = "ok" THEN "none" ELSE "store",
               !.pending = NoUpdate]
  /\ UNCHANGED exceptSession

\* ------------------------------------------------------------------- sign-in

\* the accounts the identity provider knows
Accounts == {"u1", "u2", "u3"}

\* a document of the users collection: sign-up stores the phone as typed
UserDoc(uid, fullName, phone) == [uid |-> uid, fullName |-> fullName, phone |-> phone]

\* the users collection before the call: u2 signed up typing a space in the
\* phone number, u3 has no document yet
InitUsers ==
  {UserDoc("u1", "Ada", <<"0", "8", "0">>), UserDoc("u2", "Bisi", <<"0", "8", " ", "1">>)}

\* `phone.replace(/\s/g, "")`
Cleaned(phone) == SelectSeq(phone, LAMBDA ch : ch # " ")

Lookup_Any(users, phone) == users

\* getDocs(query(collection(db, "users"), where("phone", "==", cleaned)))
Lookup(users, phone) == {d \in users : d.phone = Cleaned(phone)}

\* getDoc(doc(db, "users", uid)): snap.exists() and snap.data()
HasDoc(users, uid) == \E d \in users : d.uid = uid

DocOf(users, uid) ==
  IF HasDoc(users, uid) THEN CHOOSE d \in users : d.uid = uid
  ELSE UserDoc(uid, "", <<>>)

NoAuth ==
  [fn |-> "none", pc |-> "idle", uid |-> "", phone |-> <<>>, rememberMe |-> FALSE,
   found |-> "none", authn |-> "none", currentUser |-> "", attempts |-> 0,
   location |-> "login.html", result |-> "none", error |-> "none",
   before |-> {}, users |-> InitUsers]

\* the first await of each function
FirstStep(fn) ==
  IF fn = "mcSignUp" THEN "authenticate"
  ELSE IF fn = "mcLoginWithPhone" THEN "lookup"
  ELSE "persist"

\* A sign-in function is called on the page. uid is the account the typed
\* credentials belong to; for mcLoginWithPhone the lookup decides it.
auth_Call(fn, uid, phone, rememberMe) ==
  /\ auth.fn = "none"
  /\ auth' = [auth EXCEPT !.fn = fn, !.pc = FirstStep(fn),
                !.uid = IF fn = "mcLoginWithPhone" THEN "" ELSE uid,
                !.phone = IF fn \in {"mcLoginWithPhone", "mcSignUp"} THEN phone ELSE <<>>,
                !.rememberMe = IF fn = "mcSignUp" THEN FALSE ELSE rememberMe,
                !.before = idb.store]
  /\ UNCHANGED <<exceptAuth, idb>>

\* the call is left with an error
Threw(a, error) == [a EXCEPT !.pc = "over", !.result = "threw", !.error = error]

\* mcLoginWithPhone: the lookup by phone; an empty snapshot throws "No account
\* found with this phone number", a document hands its email to mcLogin
auth_Lookup(ok) ==
  /\ auth.pc = "lookup"
  /\ LET docs == Lookup(auth.users, auth.phone)
     IN IF ~ok THEN auth' = Threw([auth EXCEPT !.found = "failed"], "lookup_failed")
        ELSE IF docs = {} THEN auth' = Threw([auth EXCEPT !.found = "empty"], "not_found")
        ELSE \E d \in docs :
               auth' = [auth EXCEPT !.found = "doc", !.uid = d.uid, !.pc = "persist"]
  /\ UNCHANGED <<exceptAuth, idb>>

\* mcSetPersistence(rememberMe)
auth_Persist(ok) ==
  /\ auth.pc = "persist"
  /\ auth' = IF ok THEN [auth EXCEPT !.pc = "authenticate"] ELSE Threw(auth, "auth_error")
  /\ UNCHANGED <<exceptAuth, idb>>

AfterAuthFailure_Continue(a, outcome) == [a EXCEPT !.authn = outcome, !.pc = "getDoc"]

\* The provider did not authenticate: the error is rethrown through
\* mcAuthError; mcGoogleLogin returns silently when the popup was closed.
AfterAuthFailure(a, outcome) ==
  IF outcome = "cancelled"
  THEN [a EXCEPT !.authn = outcome, !.pc = "over", !.result = "returned"]
  ELSE Threw([a EXCEPT !.authn = outcome], "auth_error")

\* createUserWithEmailAndPassword / signInWithEmailAndPassword / signInWithPopup
auth_Authenticate(outcome) ==
  /\ auth.pc = "authenticate"
  /\ outcome = "cancelled" => auth.fn = "mcGoogleLogin"
  /\ LET tried == [auth EXCEPT !.attempts = @ + 1]
     IN auth' = IF outcome # "ok" THEN AfterAuthFailure(tried, outcome)
                ELSE [tried EXCEPT !.authn = "ok", !.currentUser = auth.uid,
                        !.pc = IF auth.fn = "mcSignUp" THEN "updateProfile" ELSE "getDoc"]
  /\ UNCHANGED <<exceptAuth, idb>>

\* mcSignUp: updateProfile(user, {displayName})
auth_UpdateProfile(ok) ==
  /\ auth.pc = "updateProfile"
  /\ auth' = IF ok THEN [auth EXCEPT !.pc = "writeDoc"] ELSE Threw(auth, "auth_error")
  /\ UNCHANGED <<exceptAuth, idb>>

\* mcLogin / mcGoogleLogin: getDoc of the user's document. mcLogin updates
\* lastLogin only when it exists; mcGoogleLogin creates it otherwise.
auth_GetDoc(ok) ==
  /\ auth.pc = "getDoc"
  /\ auth' = IF ~ok THEN Threw(auth, "auth_error")
             ELSE IF HasDoc(auth.users, auth.uid) \/ auth.fn = "mcGoogleLogin"
                  THEN [auth EXCEPT !.pc = "writeDoc"]
             ELSE [auth EXCEPT !.pc = "save"]
  /\ UNCHANGED <<exceptAuth, idb>>

\* setDoc of a new document (mcSignUp, a new Google user) or updateDoc of
\* lastLogin, which changes nothing the sign-in reads
auth_WriteDoc(ok) ==
  /\ auth.pc = "writeDoc"
  /\ auth' = IF ~ok THEN Threw(auth, "auth_error")
             ELSE [auth EXCEPT
                     !.pc = "save",
                     !.users = IF auth.fn = "mcSignUp"
                               THEN {d \in @ : d.uid # auth.uid}
                                    \cup {UserDoc(auth.uid, "New", auth.phone)}
                               ELSE IF HasDoc(@, auth.uid) THEN @
                               ELSE @ \cup {UserDoc(auth.uid, "", <<>>)}]
  /\ UNCHANGED <<exceptAuth, idb>>

\* the userData each function hands to saveSession. mcGoogleLogin read the
\* document before creating it, so a new Google user has an empty profile.
SessionData(a) ==
  LET profile == DocOf(a.users, a.uid)
  IN Object("", a.uid, profile.fullName,
            IF a.fn = "mcSignUp" THEN a.phone ELSE profile.phone,
            1, 0, IF a.fn = "mcSignUp" THEN "" ELSE "rememberMe")

\* `await saveSession({...}); window.location.href = "app-skeleton.html"`
auth_Save(now, outcome) ==
  /\ auth.pc = "save"
  /\ idb' = [AfterSave(idb, SessionData(auth), now, outcome) EXCEPT
               !.op = "saveSession", !.outcome = outcome, !.got = NoRecord,
               !.result = IF outcome = "ok" THEN "true" ELSE "threw",
               !.error = IF outcome = "ok" THEN "none" ELSE "store"]
  /\ auth' = IF outcome # "ok" THEN Threw(auth, "auth_error")
             ELSE [auth EXCEPT !.pc = "over", !.result = "redirected",
                               !.location = "app-skeleton.html"]
  /\ UNCHANGED exceptAuth

\* ------------------------------------------------------------ specifications

\* the cart rows orders start from: one row per (user, product)
InitCartRows == [k \in Keys |-> <<1>>]

InitOrders ==
  /\ orders = <<>>
  /\ ocalls = [c \in OrderCallIds |-> NoCall]

InitShip ==
  /\ shipReq = NoRequest
  /\ shipRemote = NoRemote
  /\ shipRes = NoResponse
  /\ shipOut = NoResult
  /\ cod = NoCod
  /\ norm = NoNorm
  /\ reads = NoRead
  /\ edit = NoEdit
  /\ page = NoPage
  /\ ostat = NoStatusCall

InitLocal ==
  /\ idb = NoIdb
  /\ auth = NoAuth

Init ==
  /\ impl \in Impls
  /\ cart = [k \in Keys |-> <<>>]
  /\ wishlist = [k \in Keys |-> 0]
  /\ calls = [c \in CallIds |-> IdleCall]
  /\ stock = [p \in Pids |-> MaxStock]
  /\ stock0 = stock
  /\ InitOrders
  /\ InitShip
  /\ InitLocal

\* Cart: callers add to carts that start empty
Next ==
  \E c \in CallIds, ok \in BOOLEAN :
    \/ \E u \in Users, p \in Pids, q \in Qtys : Invoke(c, "addToCart", u, p, q)
    \/ addToCart_Check(c, ok)
    \/ addToCart_Patch(c, ok)
    \/ addToCart_Post(c, ok)
    \/ db_addToCart(c, ok)

Spec == Init /\ [][Next]_vars

\* Wishlist: callers add to wishlists that start empty
NextWish ==
  \E c \in CallIds, ok \in BOOLEAN :
    \/ \E u \in Users, p \in Pids : Invoke(c, "addToWishlist", u, p, 1)
    \/ addToWishlist_Check(c, ok)
    \/ addToWishlist_Post(c, ok)
    \/ db_addToWishlist(c, ok)

SpecWish == Init /\ [][NextWish]_vars

\* the year the clock shows while the orders are placed
ThisYear == 2026

\* the item lists an order may carry: one line item, two of distinct products,
\* the same product twice, and a product that has no row
ItemLists ==
  {<<[pid |-> p, qty |-> q]>> : p \in Pids, q \in Qtys}
  \cup {<<[pid |-> "p1", qty |-> q], [pid |-> "p2", qty |-> r]>> : q \in Qtys, r \in Qtys}
  \cup {<<[pid |-> "p1", qty |-> q], [pid |-> "p1", qty |-> 1]>> : q \in Qtys}
  \cup {<<[pid |-> "p3", qty |-> 1], [pid |-> "p2", qty |-> q]>> : q \in Qtys}

\* the item lists of two racing orders: both name p1
RaceItemLists ==
  {<<[pid |-> "p1", qty |-> q]>> : q \in Qtys}
  \cup {<<[pid |-> "p2", qty |-> 1], [pid |-> "p1", qty |-> q]>> : q \in Qtys}

\* Orders: every user has cart rows, every product some stock
InitOrder ==
  /\ impl \in Impls
  /\ cart = InitCartRows
  /\ wishlist = [k \in Keys |-> 0]
  /\ calls = [c \in CallIds |-> IdleCall]
  /\ stock \in [Pids -> 0..MaxStock]
  /\ stock0 = stock
  /\ InitOrders
  /\ InitShip
  /\ InitLocal

placeOrder_Step(c, ok) ==
  \/ placeOrder_ClearCart(c, ok)
  \/ \E k \in {1, 2} : placeOrder_StockRead(c, k, ok)
  \/ \E k \in {1, 2} : placeOrder_StockWrite(c, k, ok)
  \/ placeOrder_CustomerPatch(c, ok)

\* one order at a time, any payload
NextOrder ==
  \E ok \in BOOLEAN :
    \/ \E u \in Users, items \in ItemLists, ref \in PayRefs :
         placeOrder_Insert(1, u, items, ref, 0, ThisYear, ok)
    \/ placeOrder_Step(1, ok)

SpecOrder == InitOrder /\ [][NextOrder]_vars

\* two orders in flight at once
InitRace ==
  /\ impl \in Impls
  /\ cart = InitCartRows
  /\ wishlist = [k \in Keys |-> 0]
  /\ calls = [c \in CallIds |-> IdleCall]
  /\ stock = [p \in Pids |-> MaxStock]
  /\ stock0 = stock
  /\ InitOrders
  /\ InitShip
  /\ InitLocal

NextRace ==
  \E c \in OrderCallIds, ok \in BOOLEAN :
    \/ \E u \in Users, items \in RaceItemLists :
         placeOrder_Insert(c, u, items, "T1", RandomScale - 1, ThisYear, ok)
    \/ placeOrder_Step(c, ok)

SpecRace == InitRace /\ [][NextRace]_vars

\* Order numbers: any value of the random source, around a change of year
RandomSamples ==
  (0..RandomEdge) \cup ((RandomScale - 1 - RandomEdge)..(RandomScale - 1))
  \cup {RandomScale \div 2}

Years == {2025, 2026, 2027}

NextNumber ==
  \E ok \in BOOLEAN :
    \E u \in Users, items \in {<<[pid |-> "p1", qty |-> 1]>>}, ref \in PayRefs,
       random \in RandomSamples, year \in Years :
         placeOrder_Insert(1, u, items, ref, random, year, ok)

SpecNumber == InitRace /\ [][NextNumber]_vars

\* Shipping: one rate request, any courier answer
StateInputs ==
  { <<>>, <<"O","y","o">>, <<"L","A","G","O","S">>, <<"F","C","T"," ","-"," ","A","b","u","j","a">>,
    <<"E","k","i","t","i">>, <<"A","k","w","a"," ","I","b","o","m">>, <<"K","a","n","o">>,
    <<"o","y","o"," ","s","t","a","t","e">>, <<"E","d","o","/","D","e","l","t","a">>,
    <<"C","r","o","s","s"," ","R","i","v","e","r">> }

RawEntry(cid, id, total, fee, days, eta) ==
  [courier_id |-> cid, id |-> id, courier_name |-> "", name |-> "",
   service_code |-> "", code |-> "", total |-> total, fee |-> fee, amount |-> 0,
   estimated_days |-> days, eta |-> eta, courier_logo |-> "", logo |-> ""]

RawEntries == { RawEntry("gig", "", 2500, 0, 2, ""), RawEntry("", "dhl", 0, 4000, 0, "3 days"),
                RawEntry("", "", 0, 0, 0, "") }

EntryLists == UNION {[1..n -> RawEntries] : n \in 0..MaxRates}

\* data.data / data.rates of the courier's body: absent, an array, or a value
\* that is no array (an object: its length is undefined)
BodyFields ==
  {[kind |-> "absent", list |-> <<>>], [kind |-> "object", list |-> <<>>]}
  \cup {[kind |-> "array", list |-> l] : l \in EntryLists}

RatesFields ==
  {[kind |-> "absent", list |-> <<>>], [kind |-> "array", list |-> <<>>],
   [kind |-> "array", list |-> <<RawEntry("gig", "", 2500, 0, 2, "")>>]}

RemoteOutcomes ==
  {[NoRemote EXCEPT !.kind = "throw"], [NoRemote EXCEPT !.kind = "null", !.ok = TRUE]}
  \cup {[kind |-> "body", ok |-> ok, data |-> d, rates |-> r] :
          ok \in BOOLEAN, d \in BodyFields, r \in RatesFields}

InitQuiet ==
  /\ impl = "product"
  /\ cart = [k \in Keys |-> <<>>]
  /\ wishlist = [k \in Keys |-> 0]
  /\ calls = [c \in CallIds |-> IdleCall]
  /\ stock = [p \in Pids |-> MaxStock]
  /\ stock0 = stock
  /\ InitOrders
  /\ InitShip
  /\ InitLocal

NextShip ==
  \/ \E m \in {"POST", "GET", "OPTIONS"}, a \in {"getRates", "bookShipment", "other"},
        h \in BOOLEAN, st \in StateInputs : SendRequest(m, a, h, st)
  \/ handler_Reject
  \/ \E remote \in RemoteOutcomes : handler_getRates(remote)
  \/ \E remote \in RemoteOutcomes : handler_bookShipment(remote)
  \/ \E delivered \in BOOLEAN : getRates_Result(delivered)

SpecShip == InitQuiet /\ [][NextShip]_vars

\* Cash on delivery: totals on both sides of each limit
CodTotals ==
  {0 - 1, 0, 20000}
  \cup (COD_MIN - CodSpan)..(COD_MIN + CodSpan)
  \cup (COD_MAX - CodSpan)..(COD_MAX + CodSpan)

Times == {1, 2}

NextCod ==
  \/ \E t \in CodTotals : validateCOD_Call(t)
  \/ \E t \in CodTotals, now \in Times : processCOD_Call(t, now)

SpecCod == InitQuiet /\ [][NextCod]_vars

\* Normalizer: rows are loaded, normalized, and normalized again
NextNorm ==
  \/ LoadProduct
  \/ normalizeProduct_Call

SpecNorm == InitQuiet /\ [][NextNorm]_vars

\* Reads: any read, through any rewrite, succeeding or failing
NextRead ==
  \E op \in ReadOps, uid \in Users, client \in Clients,
     outcome \in {"ok", "remote_failed", "route_failed"} : Read(op, uid, client, outcome)

SpecRead == Init /\ [][NextRead]_vars

\* Cart edits: one edit of a cart with no row, one row, or two rows per product
InitCartEdit ==
  /\ impl \in Impls
  /\ cart \in [Keys -> {<<>>, <<1>>, <<MaxQty, 1>>}]
  /\ wishlist = [k \in Keys |-> 0]
  /\ calls = [c \in CallIds |-> IdleCall]
  /\ stock = [p \in Pids |-> MaxStock]
  /\ stock0 = stock
  /\ InitOrders
  /\ InitShip
  /\ InitLocal

NextCartEdit ==
  /\ edit = NoEdit
  /\ \E u \in Users, ok \in BOOLEAN :
    \/ \E p \in Pids, q \in (0 - 1)..MaxQty : updateCartQty(u, p, q, ok)
    \/ clearCart(u, ok)

SpecCartEdit == InitCartEdit /\ [][NextCartEdit]_vars

\* Order ledger: two orders are placed while an operator moves order statuses
Statuses == {"confirmed", "shipped"}

NextLedger ==
  \E ok \in BOOLEAN :
    \/ \E c \in OrderCallIds :
         \/ placeOrder_Insert(c, "u1", <<[pid |-> "p1", qty |-> 1]>>, "T1", 0, ThisYear, ok)
         \/ placeOrder_Step(c, ok)
    \/ \E orderId \in 1..3, status \in Statuses : updateOrderStatus(orderId, status, 1, ok)

SpecLedger == InitRace /\ [][NextLedger]_vars

\* Checkout page: payment calls start while scripts are still loading
NextPage ==
  \/ \E c \in PayCallIds, fn \in {"initiatePayment", "loadPaystackScript"} :
       loadPaystackScript(c, fn)
  \/ \E k \in PayCallIds : script_onload(k)
  \/ \E k \in PayCallIds : script_onerror(k)

SpecPage == InitQuiet /\ [][NextPage]_vars

\* Session store: any calls, in any order, an update's read and save apart
SessionFields == {"uid", "fullName", "key", "rememberMe"}

UserDatas ==
  {Object("", uid, name, <<>>, loginAt, 0, extra) :
     uid \in {"", "u1"}, name \in {"", "Ada"}, loginAt \in {0, 1},
     extra \in {"", "rememberMe"}}

NextSession ==
  \/ \E userData \in UserDatas, now \in Times : saveSession(userData, now, "ok")
  \/ \E outcome \in Outcomes :
    \/ outcome # "ok" /\ saveSession(Object("", "u1", "Ada", <<>>, 1, 0, ""), 1, outcome)
    \/ getSession(outcome)
    \/ isLoggedIn(outcome)
    \/ clearSession(outcome)
    \/ \E field \in SessionFields, value \in {"", "u2"} :
         updateSession_Read(field, value, outcome)
    \/ \E now \in Times : updateSession_Save(now, outcome)

SpecSession == InitQuiet /\ [][NextSession]_vars

\* Sign-in: one call on a page whose store may hold an earlier session
PhoneInputs ==
  {<<"0", "8", "0">>, <<"0", " ", "8", "0">>, <<"0", "8", " ", "1">>, <<"0", "9", "0">>}

InitAuth ==
  /\ impl = "product"
  /\ cart = [k \in Keys |-> <<>>]
  /\ wishlist = [k \in Keys |-> 0]
  /\ calls = [c \in CallIds |-> IdleCall]
  /\ stock = [p \in Pids |-> MaxStock]
  /\ stock0 = stock
  /\ InitOrders
  /\ InitShip
  /\ auth = NoAuth
  /\ \E earlier \in {FALSE, TRUE} :
       idb = IF earlier
             THEN AfterSave(NoIdb, Object("", "u2", "Bisi", <<>>, 1, 0, ""), 1, "ok")
             ELSE NoIdb

NextAuth ==
  \/ \E fn \in {"mcSignUp", "mcLogin", "mcGoogleLogin", "mcLoginWithPhone"},
        uid \in Accounts, phone \in PhoneInputs, rememberMe \in BOOLEAN :
       auth_Call(fn, uid, phone, rememberMe)
  \/ \E ok \in BOOLEAN :
       \/ auth_Lookup(ok)
       \/ auth_Persist(ok)
       \/ auth_UpdateProfile(ok)
       \/ auth_GetDoc(ok)
       \/ auth_WriteDoc(ok)
  \/ \E outcome \in {"ok", "failed", "cancelled"} : auth_Authenticate(outcome)
  \/ \E outcome \in Outcomes : auth_Save(2, outcome)

SpecAuth == InitAuth /\ [][NextAuth]_vars

\* Move to cart: every product is on every wishlist, some are in the cart
\* already; moveToCart exists in product.js only
InitMove ==
  /\ impl = "product"
  /\ cart \in [Keys -> {<<>>, <<1>>}]
  /\ wishlist = [k \in Keys |-> 1]
  /\ calls = [c \in CallIds |-> IdleCall]
  /\ stock = [p \in Pids |-> MaxStock]
  /\ stock0 = stock
  /\ InitOrders
  /\ InitShip
  /\ InitLocal

NextMove ==
  \E c \in CallIds, ok \in BOOLEAN :
    \/ \E u \in Users, p \in Pids : Invoke(c, "moveToCart", u, p, 1)
    \/ moveToCart_Check(c, ok)
    \/ moveToCart_Add(c, ok)
    \/ moveToCart_Remove(c, ok)

SpecMove == InitMove /\ [][NextMove]_vars

\* ------------------------------------------------------------------ claims

\* The calls that were invoked on key k
CallsOn(k) == {c \in CallIds : calls[c].st # "idle" /\ KeyOf(c) = k}

Returned(c) == calls[c].st = "returned"

RECURSIVE SumQty(_)
SumQty(S) == IF S = {} THEN 0
             ELSE LET c == CHOOSE x \in S : TRUE
                  IN calls[c].qty + SumQty(S \ {c})

\* Every call on k has finished and none ran while another call was running
SequentialOn(k) ==
  \A c \in CallsOn(k) : ~calls[c].ovl /\ calls[c].st \in {"returned", "threw"}

\* C1: starting with no cart row for (uid, product), after any sequence of
\* non-overlapping successful addToCart calls the cart holds exactly one row
\* for the pair and its quantity is the sum of the added quantities.
C1_SequentialAddsSum ==
  \A k \in Keys :
    LET done == {c \in CallsOn(k) : Returned(c)}
    IN (SequentialOn(k) /\ done # {}) => cart[k] = <<SumQty(done)>>

\* C2: two addToCart calls for the same pair that run concurrently under the
\* merge-on-conflict write (db_addToCart) end with exactly one row whose
\* quantity is q1 + q2.
C2_ConcurrentMergeSum ==
  \A k \in Keys : \A c, d \in CallsOn(k) :
    (/\ impl = "db" /\ c # d /\ CallsOn(k) = {c, d}
     /\ calls[c].ovl /\ calls[d].ovl /\ Returned(c) /\ Returned(d))
    => cart[k] = <<calls[c].qty + calls[d].qty>>

\* Two addToWishlist calls on k, the second invoked after the first returned,
\* both successful, and no other call on k
TwiceInSequence(k, c, d) ==
  /\ c < d /\ CallsOn(k) = {c, d}
  /\ ~calls[c].ovl /\ ~calls[d].ovl /\ Returned(c) /\ Returned(d)

\* C10 (as claimed): calling addToWishlist twice in sequence with the same
\* (uid, product) leaves exactly one row and the second call returns
\* already_exists without raising an error.
C10_SecondAlreadyExists ==
  \A k \in Keys : \A c, d \in CallIds :
    TwiceInSequence(k, c, d)
    => wishlist[k] = 1 /\ calls[d].action = "already_exists"

\* C10 (amended): calling addToWishlist twice in sequence with the same
\* (uid, product) leaves exactly one row and the second call raises no error;
\* it returns already_exists in the check-then-branch rewrites and added in
\* db_addToWishlist, where the backend ignores the duplicate.
C10_SecondIsNoOp ==
  \A k \in Keys : \A c, d \in CallIds :
    (c < d /\ CallsOn(k) = {c, d} /\ ~calls[c].ovl /\ ~calls[d].ovl
     /\ Returned(c) /\ calls[d].st \in {"returned", "threw"})
    => /\ wishlist[k] = 1
       /\ calls[c].action = "added"
       /\ Returned(d) =>
            calls[d].action = IF impl = "db" THEN "added" ELSE "already_exists"

C10_Witness ==
  \E k \in Keys : \E c, d \in CallIds :
    TwiceInSequence(k, c, d) /\ calls[d].action = "already_exists"

Max0(n) == IF n > 0 THEN n ELSE 0

\* the insert, the cart clear, every stock read and write (and, in product.js,
\* the customers PATCH) of the call succeeded and the call is over
RanClean(call) ==
  /\ call.ins = "ok" /\ call.clr = "ok" /\ call.ret = "order"
  /\ \A k \in 1..Len(call.st) : call.st[k] \in {"done", "norow"}

DistinctProducts(items) ==
  \A j, k \in 1..Len(items) : j # k => items[j].pid # items[k].pid

\* C3: when placeOrder runs to completion with every remote call succeeding,
\* nothing else touching the products and line items naming distinct products,
\* each ordered product's stock is max(0, oldStock - orderedQty).
C3_StockAfterOrder ==
  LET call == ocalls[1]
  IN (RanClean(call) /\ DistinctProducts(call.items))
     => \A k \in 1..Len(call.items) :
          LET item == call.items[k]
          IN item.pid \in DOMAIN stock
             => stock[item.pid] = Max0(stock0[item.pid] - item.qty)

C3_Witness ==
  LET call == ocalls[1]
  IN /\ RanClean(call) /\ Len(call.items) = 2 /\ DistinctProducts(call.items)
     /\ stock0["p1"] > call.items[1].qty /\ call.items[1].pid = "p1"
     /\ stock0["p2"] < call.items[2].qty /\ call.items[2].pid = "p2"
     /\ stock["p2"] = 0

\* C4: under any interleaving of concurrent placeOrder calls, any ordered
\* quantities and any pattern of remote-call failures, no stock is negative.
C4_StockNeverNegative == \A p \in DOMAIN stock : stock[p] >= 0

\* two orders in flight wrote the same product, one of them ordering more than
\* the stock it read, and a remote call of one of them failed
C4_Witness ==
  \E c, d \in OrderCallIds : \E j \in {1, 2}, k \in {1, 2} :
    /\ c # d /\ j \in 1..Len(ocalls[c].st) /\ k \in 1..Len(ocalls[d].st)
    /\ ocalls[c].st[j] = "done" /\ ocalls[d].st[k] = "done"
    /\ ocalls[c].items[j].pid = ocalls[d].items[k].pid
    /\ ocalls[c].rd[j] < ocalls[c].items[j].qty
    /\ ocalls[d].clr = "failed"
    /\ stock[ocalls[c].items[j].pid] = 0

\* C5: if the order insert succeeds, placeOrder returns the created order even
\* when the cart clear or a stock read or write fails: no failure of a step
\* after the insert turns the operation into an error.
C5_NoErrorAfterInsert ==
  \A c \in OrderCallIds : ocalls[c].ins = "ok" => ocalls[c].ret # "error"

\* C6: if the order insert fails, placeOrder fails with an error, no order row
\* is created and the cart rows and every stock are unchanged: no cart clear
\* and no stock write is issued before the insert has succeeded.
C6_FailedInsertChangesNothing ==
  /\ ocalls[1].ins = "failed"
     => /\ ocalls[1].ret = "error"
        /\ orders = <<>> /\ cart = InitCartRows /\ stock = stock0
  /\ (ocalls[1].clr # "none" \/ ocalls[1].st # <<>>) => ocalls[1].ins = "ok"

C6_Witness == ocalls[1].ins = "failed" /\ ocalls[1].ret = "error"

\* the entries the courier's answer carries: the array under `data`, or,
\* when the body has no `data`, the array under `rates`
RemoteEntries(remote) ==
  IF remote.kind # "body" \/ ~remote.ok THEN <<>>
  ELSE IF remote.data.kind = "array" THEN remote.data.list
  ELSE IF remote.data.kind = "absent" /\ remote.rates.kind = "array" THEN remote.rates.list
  ELSE <<>>

RatesAnswered == shipReq.method = "POST" /\ shipReq.action = "getRates" /\ shipRes # NoResponse

C8_SourceTag ==
  RatesAnswered =>
    LET entries == RemoteEntries(shipRemote)
        live == shipReq.hasAddress /\ Len(entries) > 0
    IN /\ (shipRes.source = "shipbubble") <=> live
       /\ live => /\ Len(shipRes.rates) = Len(entries)
                  /\ \A i \in 1..Len(entries) : shipRes.rates[i] = MapRate(entries[i])
       /\ ~live => /\ shipRes.source = "fallback"
                   /\ shipRes.rates = flatRates(shipReq.state)

C8_Witness ==
  /\ RatesAnswered /\ shipRes.source = "shipbubble"
  /\ shipRemote.data.kind = "absent" /\ Len(shipRes.rates) = Len(shipRemote.rates.list)
  /\ shipRes.rates[1].delivery_fee = 2500

\* C9: validateCOD is valid exactly for totals in [7000, 50000] and gives a
\* reason otherwise; processCOD throws that reason exactly when the total is
\* invalid and otherwise returns a pending payment for the total.
C9_CodWindow ==
  /\ cod.check # NoCod.check =>
       /\ cod.check.valid <=> (7000 <= cod.vTotal /\ cod.vTotal <= 50000)
       /\ ~cod.check.valid => cod.check.reason # NoReason
  /\ cod.payment # NoPayment =>
       /\ (cod.payment.kind = "threw") <=> ~(7000 <= cod.pTotal /\ cod.pTotal <= 50000)
       /\ cod.payment.kind = "threw" =>
            /\ cod.payment.message # NoReason
            /\ cod.payment.message = validateCOD(cod.pTotal).reason
       /\ cod.payment.kind # "threw" =>
            /\ cod.payment.kind = "returned"
            /\ cod.payment.status = "pending"
            /\ cod.payment.amount = cod.pTotal

C9_Witness ==
  /\ cod.vTotal = 7000 /\ cod.check.valid
  /\ cod.pTotal = 50000 /\ cod.payment.kind = "returned"

\* C11: every order row placeOrder creates has status "processing", and
\* payment_status "paid" exactly when the payload's payment reference is not
\* empty, "pending" otherwise.
C11_PaymentStatus ==
  \A i \in 1..Len(orders) :
    /\ orders[i].status = "processing"
    /\ orders[i].payment_status \in {"paid", "pending"}
    /\ (orders[i].payment_status = "paid") <=> (orders[i].payment_ref # "")

C11_Witness ==
  /\ Len(orders) = 1 /\ orders[1].payment_ref = "T1" /\ orders[1].payment_status = "paid"
  /\ ocalls[1].ret = "order"

\* C12: once the insert and the cart clear of a placeOrder have both succeeded,
\* the placing user has no cart row left, also for products that were not
\* ordered, and every other user's cart rows are as they were.
C12_CartClearedWhole ==
  (ocalls[1].ins = "ok" /\ ocalls[1].clr = "ok") =>
    \A k \in Keys : cart[k] = IF k[1] = ocalls[1].uid THEN <<>> ELSE InitCartRows[k]

C12_Witness ==
  /\ ocalls[1].ins = "ok" /\ ocalls[1].clr = "ok" /\ ocalls[1].uid = "u2"
  /\ ocalls[1].items = <<[pid |-> "p1", qty |-> 1]>>
  /\ cart[<<"u2", "p2">>] = <<>> /\ cart[<<"u1", "p2">>] = <<1>>

RECURSIVE Value(_)
Value(digits) ==
  IF digits = <<>> THEN 0 ELSE 10 * Value(SubSeq(digits, 1, Len(digits) - 1)) + digits[Len(digits)]

\* C13: every order number is MC-<year of the clock>-<N> with N written in
\* exactly six digits, 100000 <= N <= 999999, whatever the random source gave.
C13_OrderNumberForm ==
  \A i \in 1..Len(orders) :
    LET number == orders[i].order_number
    IN /\ number.prefix = "MC-" /\ number.dash = "-"
       /\ Value(number.year) = ocalls[orders[i].by].year
       /\ Len(number.serial) = 6
       /\ number.serial[1] # 0
       /\ 100000 <= Value(number.serial) /\ Value(number.serial) <= 999999

C13_Witness ==
  /\ Len(orders) = 1 /\ Value(orders[1].order_number.serial) > 999000
  /\ ocalls[1].year = 2025

\* C14: for a row whose price and promo_price are numbers, the promo is shown
\* (display_price = promo_price, original_price = price) exactly when
\* 0 < promo_price < price; otherwise display_price = price and
\* original_price = null.
C14_PromoShown ==
  (norm.stage # "none" /\ norm.stage # "raw" /\ norm.raw.exists
     /\ norm.raw.price.t = "number" /\ norm.raw.promo_price.t = "number") =>
    LET price == norm.raw.price.n
        promo == norm.raw.promo_price.n
    IN IF 0 < promo /\ promo < price
       THEN norm.once.display_price = Num(promo) /\ norm.once.original_price = Num(price)
       ELSE norm.once.display_price = Num(price) /\ norm.once.original_price = Null

C14_Witness ==
  /\ norm.stage = "once" /\ norm.raw.price = Num(3) /\ norm.raw.promo_price = Num(2)
  /\ norm.once.display_price = Num(2) /\ norm.once.original_price = Num(3)

\* C15: normalizing a normalized product changes no field of it.
C15_NormalizeIdempotent == norm.stage = "twice" => norm.twice = norm.once

C15_Witness ==
  /\ norm.stage = "twice" /\ norm.raw.exists
  /\ norm.raw.name = Undefined /\ norm.raw.image_url = Undefined
  /\ norm.raw.price = Num(3) /\ norm.raw.promo_price = Num(2)
  /\ norm.raw.display_price = Num(1) /\ norm.twice.display_price = Num(2)

\* C16: a read whose remote call failed hands its caller the neutral default
\* (empty list, null, false or zero) and throws nothing.
C16_ReadsNeverThrow ==
  reads.outcome \in {"remote_failed", "route_failed"} =>
    reads.got # "threw" /\ reads.got = Default(reads.op)

\* C17: a successful updateCartQty with quantity <= 0 removes the rows of
\* (uid, productId); with quantity > 0 it sets the quantity of the existing
\* rows and creates none; every other cart row is as before, and no stored
\* quantity is ever <= 0.
C17_UpdateQty ==
  /\ \A k \in Keys : \A i \in 1..Len(cart[k]) : cart[k][i] > 0
  /\ (edit.op = "updateCartQty" /\ edit.ok) =>
       LET key == <<edit.uid, edit.pid>>
       IN /\ \A k \in Keys \ {key} : cart[k] = edit.before[k]
          /\ edit.qty <= 0 => cart[key] = <<>>
          /\ edit.qty > 0 =>
               /\ Len(cart[key]) = Len(edit.before[key])
               /\ \A i \in 1..Len(cart[key]) : cart[key][i] = edit.qty

C17_Witness ==
  /\ edit.op = "updateCartQty" /\ edit.ok /\ edit.qty = 0
  /\ edit.before[<<edit.uid, edit.pid>>] # <<>> /\ cart[<<edit.uid, edit.pid>>] = <<>>

\* C18: a successful clearCart deletes every cart row of the user and no row
\* of another user; a failed one leaves the cart as it was and raises nothing.
C18_ClearCartSwallows ==
  edit.op = "clearCart" =>
    /\ edit.ok => \A k \in Keys :
                    cart[k] = IF k[1] = edit.uid THEN <<>> ELSE edit.before[k]
    /\ ~edit.ok => cart = edit.before /\ ~edit.threw

\* C19: whatever the order of the payment calls and of the script events, the
\* page never holds more than one injected provider script.
C19_ScriptInjectedOnce == Len(page.scripts) <= 1

\* C20: order rows are append-only. A step adds a row exactly when an insert
\* succeeds, and then one row; no step removes a row or changes the items or
\* any field but status and updated_at of a row, and a row changes only in a
\* successful updateOrderStatus that addresses it.
C20_OrdersAppendOnly ==
  [][/\ Len(orders') \in {Len(orders), Len(orders) + 1}
     /\ (Len(orders') = Len(orders) + 1) <=>
          (\E c \in OrderCallIds : ocalls[c].ins = "none" /\ ocalls'[c].ins = "ok")
     /\ \A i \in 1..Len(orders) :
          /\ orders'[i].items = orders[i].items
          /\ [orders'[i] EXCEPT !.status = orders[i].status,
                                !.updated_at = orders[i].updated_at] = orders[i]
          /\ orders'[i] # orders[i] =>
               ostat'.ok /\ ostat'.orderId = orders[i].id /\ orders'[i].status = ostat'.status]_vars

C20_Witness ==
  /\ Len(orders) = 2 /\ orders[1].status = "shipped" /\ orders[2].status = "processing"
  /\ orders[1].items = <<[pid |-> "p1", qty |-> 1]>>
  /\ stock # stock0 /\ ocalls[1].clr = "ok"

\* the successful calls on c's key that were invoked before c
ReturnedBefore(c) == {d \in CallsOn(KeyOf(c)) : d < c /\ Returned(d)}

\* C21: an addToCart call that returns, none of the calls on its pair having
\* overlapped, returns "added" with the requested quantity when the pair had no
\* row before it, and "updated" with the previous quantity plus the added one
\* when it had.
C21_AddToCartResult ==
  \A c \in CallIds :
    (calls[c].op = "addToCart" /\ Returned(c) /\ SequentialOn(KeyOf(c))) =>
      IF ReturnedBefore(c) = {}
      THEN calls[c].action = "added" /\ calls[c].rq = calls[c].qty
      ELSE calls[c].action = "updated"
           /\ calls[c].rq = SumQty(ReturnedBefore(c)) + calls[c].qty

\* the calls on k that took the not-found branch and whose POST succeeded
Added(k) == {c \in CallsOn(k) : Returned(c) /\ calls[c].action = "added"}

\* C22: under the check-then-branch addToCart a pair holds one row per call
\* that found no row and inserted, so two such calls leave two rows for one
\* pair; this takes calls that overlapped, and the merging write of
\* db_addToCart never leaves a second row.
C22_DuplicateRowsByRace ==
  \A k \in Keys :
    /\ impl # "db" => Len(cart[k]) = Cardinality(Added(k))
    /\ Len(cart[k]) >= 2 => impl # "db" /\ \A c \in Added(k) : calls[c].ovl

C22_Witness ==
  \E c, d \in CallIds :
    /\ c # d /\ KeyOf(c) = KeyOf(d) /\ impl = "product"
    /\ calls[c].op = "addToCart" /\ calls[d].op = "addToCart"
    /\ Returned(c) /\ Returned(d) /\ calls[c].action = "added" /\ calls[d].action = "added"
    /\ Len(cart[KeyOf(c)]) = 2

\* item j of call c and item k of call d name one product, both calls read
\* the stock it started with and both wrote
BothReadSame(c, j, d, k) ==
  /\ c # d /\ j \in 1..Len(ocalls[c].st) /\ k \in 1..Len(ocalls[d].st)
  /\ ocalls[c].items[j].pid = ocalls[d].items[k].pid
  /\ ocalls[c].st[j] = "done" /\ ocalls[d].st[k] = "done"
  /\ ocalls[c].rd[j] = stock0[ocalls[c].items[j].pid]
  /\ ocalls[d].rd[k] = stock0[ocalls[d].items[k].pid]

\* C23: when two placeOrder calls have both read the same stock s of a product
\* and both written, the stock is s less the quantity of one of the two
\* orders: the other decrement is lost, also when s >= q1 + q2.
C23_LostStockUpdate ==
  \A c, d \in OrderCallIds : \A j, k \in {1, 2} :
    BothReadSame(c, j, d, k) =>
      LET p == ocalls[c].items[j].pid
      IN stock[p] \in {Max0(stock0[p] - ocalls[c].items[j].qty),
                       Max0(stock0[p] - ocalls[d].items[k].qty)}

C23_Witness ==
  \E c, d \in OrderCallIds : \E j, k \in {1, 2} :
    /\ BothReadSame(c, j, d, k)
    /\ LET p == ocalls[c].items[j].pid
           q1 == ocalls[c].items[j].qty
           q2 == ocalls[d].items[k].qty
       IN /\ stock0[p] >= q1 + q2
          /\ stock[p] = stock0[p] - q2
          /\ stock[p] # stock0[p] - q1 - q2
    /\ ocalls[c].ret = "order" /\ ocalls[d].ret = "order"

ClearOver(call) == call.clr \in {"ok", "failed"}

\* C24: in the sequential rewrites the caller has the created order only once
\* the cart clear and every item's stock adjustment have finished or failed,
\* and an item's adjustment begins only after the cart clear and the
\* adjustments of the items before it are over; db_placeOrder hands the
\* created order to its caller with the insert, whatever is still pending.
C24_ReturnAfterSteps ==
  LET call == ocalls[1]
  IN /\ impl # "db" =>
          /\ call.ret = "order" =>
               ClearOver(call) /\ \A k \in 1..Len(call.st) : ItemFinished(call.st[k])
          /\ \A k \in 1..Len(call.st) :
               call.st[k] # "todo" =>
                 ClearOver(call) /\ \A j \in 1..(k - 1) : ItemFinished(call.st[j])
     /\ impl = "db" => (call.ins = "ok" <=> call.ret = "order")

\* the caller of db_placeOrder has the order; the cart clear and both stock
\* adjustments have not run yet
C24_Witness ==
  /\ impl = "db" /\ ocalls[1].ret = "order" /\ Len(orders) = 1
  /\ ocalls[1].clr = "todo" /\ ocalls[1].st = <<"todo", "todo">>
  /\ cart = InitCartRows /\ stock = stock0

\* C25: a mcLoginWithPhone call whose phone number, spaces removed, is the
\* phone of no user document ends, once its lookup is over, with an error, the
\* not-found error when the lookup itself succeeded; it makes no sign-in
\* attempt at the provider, leaves the session store as it was and the page
\* where it is.
C25_PhoneNotFound ==
  (/\ auth.fn = "mcLoginWithPhone" /\ auth.pc # "lookup"
   /\ \A d \in auth.users :
        d.phone # SelectSeq(auth.phone, LAMBDA ch : ch # " ")) =>
    /\ auth.result = "threw"
    /\ auth.found = "empty" => auth.error = "not_found"
    /\ auth.found \in {"empty", "failed"}
    /\ auth.attempts = 0 /\ auth.currentUser = ""
    /\ idb.store = auth.before
    /\ auth.location = "login.html"

C25_Witness ==
  /\ auth.fn = "mcLoginWithPhone" /\ auth.phone = <<"0", "8", " ", "1">>
  /\ auth.found = "empty" /\ auth.result = "threw" /\ auth.error = "not_found"
  /\ auth.attempts = 0 /\ idb.store # {} /\ auth.location = "login.html"

\* the provider authenticated the user of the running call
Authenticated == auth.authn = "ok" /\ auth.currentUser = auth.uid /\ auth.uid # ""

\* C29: during a sign-in call the session store changes only after the
\* provider authenticated the
\* user, and then to that user's record; the page moves to the app only with
\* that record saved; after a failed or cancelled authentication the store is
\* as it was and the page has not moved.
C29_SessionAfterAuthentication ==
  /\ (auth.fn # "none" /\ idb.store # auth.before) =>
       /\ Authenticated
       /\ \A r \in idb.store : r.uid = auth.uid /\ r.key = "currentUser"
  /\ auth.location # "login.html" =>
       /\ auth.location = "app-skeleton.html" /\ Authenticated
       /\ idb.last = "saved" /\ idb.saved.uid = auth.uid /\ idb.store = {idb.saved}
       /\ auth.result = "redirected"
  /\ auth.authn \in {"failed", "cancelled"} =>
       /\ idb.store = auth.before /\ auth.location = "login.html"
       /\ auth.result = IF auth.authn = "cancelled" THEN "returned" ELSE "threw"
  /\ auth.result = "redirected" => auth.location = "app-skeleton.html"

C29_Witness ==
  /\ auth.fn = "mcGoogleLogin" /\ auth.uid = "u3" /\ auth.result = "redirected"
  /\ auth.before # {} /\ idb.store # auth.before
  /\ \E r \in idb.store : r.uid = "u3"

\* what the session store holds and what the last call on it gave its caller
SessionStoreInv ==
  /\ Cardinality(idb.store) <= 1
  /\ idb.store = IF idb.last = "saved" THEN {idb.saved} ELSE {}
  /\ (idb.op = "getSession" /\ idb.outcome = "ok") =>
       IF idb.last = "saved" THEN idb.result = "record" /\ idb.got = idb.saved
       ELSE idb.result = "null" /\ idb.got = NoRecord
  /\ (idb.op = "isLoggedIn" /\ idb.outcome = "ok") =>
       /\ idb.result \in {"true", "false"}
       /\ (idb.result = "true") <=> (\E r \in idb.store : r.uid # "")
  /\ (idb.op = "updateSession" /\ idb.error = "no_session") =>
       /\ idb.result = "threw" /\ ~idb.pending.active
       /\ idb.outcome = "ok" => idb.store = {}

\* C30: whatever saveSession, updateSession and clearSession calls ran, the
\* store holds at most one record: the one of the latest successful save, or
\* none when a clear came after it. A getSession that reached the store
\* returns that record, or null; isLoggedIn is true exactly when a record
\* with a non-empty uid is stored; an updateSession that starts with no
\* stored session throws and the store stays empty.
C30_SessionStore ==
  /\ []SessionStoreInv
  /\ [][(idb'.op = "updateSession" /\ ~idb.pending.active /\ idb.store = {}) =>
          (idb'.result = "threw" /\ idb'.store = {} /\ idb'.last = idb.last
           /\ ~idb'.pending.active)]_vars

\* a session was saved, updated and cleared, and the update that came next threw
C30_Witness ==
  /\ idb.op = "updateSession" /\ idb.error = "no_session" /\ idb.result = "threw"
  /\ idb.last = "cleared" /\ idb.store = {}
  /\ idb.saved.uid = "" /\ idb.saved.fullName = "Ada" /\ idb.saved.savedAt = 2

\* the moveToCart calls on k whose addToCart has returned
AddedToCart(k) ==
  {c \in CallsOn(k) : calls[c].op = "moveToCart" /\ calls[c].action \in {"added", "updated"}}

\* C28: a product that was on the wishlist is, whatever the moveToCart calls
\* on it did and however they failed, in the cart, on the wishlist or both.
\* Its wishlist row is gone only when a call first added it to the cart and
\* returned; a call whose addToCart failed throws without having touched the
\* cart or the wishlist, and a call whose wishlist removal failed throws with
\* the product in both.
C28_MoveNeverLoses ==
  \A k \in Keys :
    /\ wishlist[k] > 0 \/ Len(cart[k]) > 0
    /\ wishlist[k] = 0 => \E c \in AddedToCart(k) : Returned(c) /\ Len(cart[k]) > 0
    /\ \A c \in CallsOn(k) :
         /\ calls[c].st \in {"remove", "returned"} => c \in AddedToCart(k)
         /\ (calls[c].st = "threw" /\ c \notin AddedToCart(k) /\ CallsOn(k) = {c}) =>
              wishlist[k] = 1 /\ Len(cart[k]) <= 1 /\ \A i \in 1..Len(cart[k]) : cart[k][i] = 1
         /\ (calls[c].st = "threw" /\ c \in AddedToCart(k) /\ CallsOn(k) = {c}) =>
              wishlist[k] = 1 /\ Len(cart[k]) > 0

C28_Witness ==
  \E c, d \in CallIds :
    /\ c # d /\ KeyOf(c) = KeyOf(d) /\ CallsOn(KeyOf(c)) = {c, d}
    /\ calls[c].st = "threw" /\ calls[c].action = "none"
    /\ Returned(d) /\ calls[d].action = "added"
    /\ wishlist[KeyOf(c)] = 0 /\ cart[KeyOf(c)] = <<1>>


\* the match keys of flatRates, in the order of its tests
MatchGroups ==
  << {<<"o","y","o">>}, {<<"l","a","g","o","s">>},
     {<<"a","b","u","j","a">>, <<"f","c","t">>}, SouthWest, SouthSouth >>

MatchKeys == UNION {MatchGroups[i] : i \in 1..Len(MatchGroups)}

\* the rate tables flatRates returns for a matched state
GeographicBuckets == {flatRates(key) : key \in MatchKeys}

DefaultBucket == flatRates(<<>>)

FallbackAnswered == RatesAnswered /\ shipRes.source = "fallback"

\* what every flat-rate answer satisfies: the bucket of the first group with a
\* key inside the lowered state, else the default bucket; two options, express
\* then standard, with a fee and an ETA text
FlatRateAnswer ==
  FallbackAnswered =>
    LET s == ToLowerCase(shipReq.state)
        r == shipRes.rates
        matched == {i \in 1..Len(MatchGroups) : \E key \in MatchGroups[i] : Includes(s, key)}
    IN /\ r \in GeographicBuckets \cup {DefaultBucket}
       /\ matched = {} <=> r = DefaultBucket
       /\ matched # {} =>
            LET first == CHOOSE i \in matched : \A j \in matched : i <= j
            IN \A key \in MatchGroups[first] : r = flatRates(key)
       /\ Len(r) = 2
       /\ r[1].courier_name = "Express Delivery" /\ r[1].courier_id[2] = "-express"
       /\ r[2].courier_name = "Standard Delivery" /\ r[2].courier_id[2] = "-standard"
       /\ r[1].courier_id[1] = r[2].courier_id[1]
       /\ \A i \in 1..2 : r[i].delivery_fee > 0 /\ r[i].eta.days = 0 /\ r[i].eta.text # ""

\* C26 (as stated): every state is mapped, by case-insensitive substring match,
\* to one of six geographic buckets or to the default bucket, each of two
\* options, express and standard, with a fixed fee and ETA.
C26_SixGeographicBuckets ==
  /\ FlatRateAnswer
  /\ Cardinality(GeographicBuckets) = 6
  /\ DefaultBucket \notin GeographicBuckets

\* C26 (amended): every state is mapped, by case-insensitive substring match,
\* to one of five geographic buckets (Oyo, Lagos, Abuja/FCT, the south-west
\* list, the south-south list) or to the default rest-of-country bucket, and
\* every bucket is two options, express then standard, with a fixed fee and ETA.
C26_FiveGeographicBuckets ==
  /\ FlatRateAnswer
  /\ Cardinality(GeographicBuckets) = 5
  /\ DefaultBucket \notin GeographicBuckets

C26_Witness ==
  /\ FallbackAnswered
  /\ shipReq.state = <<"L","A","G","O","S">>
  /\ shipRes.rates[1].courier_id = <<"lagos", "-express">>
  /\ shipRes.rates[1].delivery_fee = 3500 /\ shipRes.rates[2].delivery_fee = 2000


BookingAnswered ==
  shipReq.method = "POST" /\ shipReq.action = "bookShipment" /\ shipRes # NoResponse

\* the courier provider accepted the shipment and returned shipment data
Accepted == shipRemote.kind = "body" /\ shipRemote.ok /\ shipRemote.data.kind # "absent"

\* C27: a booking request is answered ok: true only when the courier provider
\* accepted the shipment and returned shipment data; a provider call that
\* fails or throws is never answered ok: true.
C27_BookingOkOnlyWhenAccepted == (BookingAnswered /\ shipRes.ok) => Accepted

====
